---- MODULE Spec2Model ----
(***************************************************************************)
(* NIP-17 / NIP-59 direct messages of nostr-polls:                         *)
(*   - the gift-wrap protocol (src/nostr/nip17.ts),                        *)
(*   - the publish / retry tracker (ChatView),                             *)
(*   - the conversation reconciliation engine (DMProvider).                *)
(*                                                                         *)
(* Data representation.                                                    *)
(*   pubkey       an integer (a 32-byte hex string read as a number; the   *)
(*                lexicographic order of equal-length lowercase hex is the *)
(*                numeric order)                                           *)
(*   private key  [pub |-> p], the key whose public key is p;              *)
(*                [pub |-> 0] is "no private key" (undefined)              *)
(*   sha256       injective: the hash of a canonical array is modelled by  *)
(*                the array itself, tagged "sha256"                        *)
(*   nip44        a ciphertext is [key, plain]; it decrypts under exactly  *)
(*                the conversation key it was encrypted under, any other   *)
(*                key throws                                               *)
(*   JSON         a text is [json, value]; parsing a text that is not JSON *)
(*                throws                                                   *)
(*   exceptions   a call that may throw returns [ok |-> TRUE, val |-> v]   *)
(*                or Throw; a nullable result is the same with Null, a     *)
(*                value different from Throw                               *)
(***************************************************************************)
EXTENDS Integers, Sequences, FiniteSets, Bags, TLC

VARIABLES
    \* ---- gift-wrap protocol harness (one wrap, one unwrap) ----
    pIn,            \* the drawn inputs of a harness run
    pWrap,          \* result of createGiftWrapLocal / createGiftWrapForSigner
    pOut,           \* result of unwrapGiftWrap
    pPc,            \* "input" -> ("encrypt" -> "sign" ->) "wrapped" -> "done"
    \* ---- session ----
    user,           \* useUserContext().user: [pubkey, privateKey]
    activeSigner,   \* signerManager.getSigner()
    clock,          \* Math.floor(Date.now() / 1000)
    ephCount,       \* number of generateSecretKey() calls so far
    \* ---- DMProvider ----
    conversations,  \* React state: conversationId -> Conversation
    seenRumorIds,   \* useRef<Set<string>>
    dmCache,        \* localStorage dm_cache_<wrapId>
    reactionStore,  \* localStorage dm_reactions_<conversationId>
    lastSeenStore,  \* localStorage dm_lastseen_<conversationId>
    inflight,       \* bag of the onEvent calls waiting in "await unwrapGiftWrap"
    subRef,         \* useRef: the id of the stored subscription handle, 0 = null
    subs,           \* the kind-1059 subscriptions live in nostrRuntime
    starting,       \* startSubscription calls in "await fetchInboxRelays"
    subCount,       \* number of startSubscription calls so far
    calls,          \* handleSend / handleReaction / publishInboxRelays calls
                    \* that wait at an await of the send path
    \* ---- inbox relay resolver ----
    inboxRelayCache, \* Map<pubkey, relays>
    relayStore,     \* localStorage inbox_relays_<pubkey>
    refreshes,      \* background refreshes that have not answered yet
    lookups,        \* bag of the cold lookups waiting for the network
    \* ---- ChatView / relay pool ----
    pubs,           \* every promise pool.publish has returned, in order
    races,          \* every Promise.race([promise, timeout]) set up
    sendStatuses,   \* React state: rumorId -> MsgSendStatus
    chat,           \* recipientPubkey of the mounted ChatView, 0 = none mounted
    replyTo,        \* React state of ChatView: id of the message replied to,
                    \* <<>> = null
    \* ---- bookkeeping of the model ----
    sends,          \* number of send-path calls started
    retries,        \* number of handleRetry calls
    lastOp          \* the handler that made the last step, with its inputs

protoVars == <<pIn, pWrap, pOut, pPc>>
sessionVars == <<user, activeSigner, clock, ephCount>>
engineVars == <<conversations, seenRumorIds, dmCache, reactionStore, lastSeenStore, inflight>>
subscriptionVars == <<subRef, subs, starting, subCount>>
resolverVars == <<inboxRelayCache, relayStore, refreshes>>
trackVars == <<pubs, races, sendStatuses>>
chatVars == <<chat, replyTo>>
countVars == <<sends, retries, lastOp>>
vars == <<protoVars, sessionVars, engineVars, subscriptionVars, calls, resolverVars, lookups, trackVars, chatVars, countVars>>

(***************************************************************************)
(* Bounds of the model                                                     *)
(***************************************************************************)
\* randomTimestamp draws an offset in 0..MaxJitter (two days, scaled down)
MaxJitter == 1
\* wall-clock values (Date.now() in seconds) range over 1..MaxClock
MaxClock == 2

(***************************************************************************)
(* Program constants                                                       *)
(***************************************************************************)
KindDM == 14
KindReaction == 7
KindSeal == 13
KindGiftWrap == 1059
KindRelayList == 10050

\* the pubkeys of the model: the local user, a peer, an attacker
UserKeys == <<11, 22, 33>>
Alice == UserKeys[1]
Bob == UserKeys[2]
Mallory == UserKeys[3]
Users == {Alice, Bob, Mallory}

Contents == {"hi", "yo"}

\* a raised exception, and a returned null / undefined
Throw == [ok |-> FALSE, thrown |-> TRUE]
Null == [ok |-> FALSE, thrown |-> FALSE]
Ok(v) == [ok |-> TRUE, val |-> v]

(***************************************************************************)
(* Keys, encryption, JSON, hashing (nostr-tools, @noble/hashes)            *)
(***************************************************************************)
NoPrivateKey == [pub |-> 0]
SecretKey(p) == [pub |-> p]
getPublicKey(sk) == sk.pub
hexToBytes(hex) == hex

\* ECDH: the key of (a's private key, b's public key) is the key of
\* (b's private key, a's public key)
getConversationKey(privkey, pubkey) == {getPublicKey(privkey), pubkey}

nip44_encrypt(plaintext, conversationKey) ==
    [key |-> conversationKey, plain |-> plaintext]

nip44_decrypt(payload, conversationKey) ==
    IF payload.key = conversationKey THEN Ok(payload.plain) ELSE Throw

JSON_stringify(v) == [json |-> TRUE, value |-> v]

JSON_parse(text) == IF text.json THEN Ok(text.value) ELSE Throw

\* the JSON text "null" parses to null; a text that is no JSON; a string
\* that is no nip44 payload (no key decrypts it)
JsonNull == [jsonNull |-> TRUE]
NotJson == [json |-> FALSE, value |-> "garbage"]
NotPayload == [key |-> {}, plain |-> NotJson]

sha256(serialized) == <<"sha256">> \o serialized

\* finalizeEvent: sets pubkey from the key, id = hash of the canonical form,
\* sig = signature by the key (recorded as its signer)
getEventHash(e) ==
    sha256(<<0, e.pubkey, e.created_at, e.kind, e.tags, e.content>>)

finalizeEvent(t, secretKey) ==
    LET e == [kind |-> t.kind, created_at |-> t.created_at, tags |-> t.tags,
              content |-> t.content, pubkey |-> getPublicKey(secretKey)]
    IN  [kind |-> e.kind, created_at |-> e.created_at, tags |-> e.tags,
         content |-> e.content, pubkey |-> e.pubkey,
         id |-> getEventHash(e),
         sig |-> [by |-> getPublicKey(secretKey)]]

\* generateSecretKey: the n-th fresh random key of the run
generateSecretKey(n) == SecretKey(100 + n)

\* randomTimestamp: now minus a random offset within the past two days
randomTimestamp(now, offset) == now - offset

(***************************************************************************)
(* The delegated signer (signerManager.getSigner())                        *)
(***************************************************************************)
Signer(p, canEncrypt, canDecrypt) ==
    [pubkey |-> p, nip44Encrypt |-> canEncrypt, nip44Decrypt |-> canDecrypt]

signer_signEvent(signer, t) ==
    finalizeEvent([kind |-> t.kind, created_at |-> t.created_at,
                   tags |-> t.tags, content |-> t.content],
                  SecretKey(signer.pubkey))

signer_nip44Encrypt(signer, pk, txt) ==
    nip44_encrypt(txt, getConversationKey(SecretKey(signer.pubkey), pk))

signer_nip44Decrypt(signer, pk, payload) ==
    nip44_decrypt(payload, getConversationKey(SecretKey(signer.pubkey), pk))

(***************************************************************************)
(* Rumors                                                                  *)
(***************************************************************************)
computeRumorId(rumor) ==
    sha256(<<0, rumor.pubkey, rumor.created_at, rumor.kind, rumor.tags,
             rumor.content>>)

\* replyToId = <<>> is "undefined"
createRumor(senderPubkey, recipientPubkey, content, replyToId, kind, extraTags, now) ==
    LET tags == <<<<"p", recipientPubkey>>>>
                \o (IF replyToId # <<>>
                    THEN <<<<"e", replyToId, "", "reply">>>> ELSE <<>>)
                \o extraTags
        unsigned == [kind |-> kind, created_at |-> now, tags |-> tags,
                     content |-> content, pubkey |-> senderPubkey]
    IN  [kind |-> unsigned.kind, created_at |-> unsigned.created_at,
         tags |-> unsigned.tags, content |-> unsigned.content,
         pubkey |-> unsigned.pubkey, id |-> computeRumorId(unsigned)]

(***************************************************************************)
(* Gift wrap: rumor -> seal (kind 13) -> gift wrap (kind 1059)             *)
(***************************************************************************)
\* a plausible slip: the wrap layer is keyed to the sender, not the recipient
createGiftWrapLocal_wrongKey(senderPrivkey, rumor, recipientPubkey, rnd) ==
    LET rumorJson == JSON_stringify(rumor)
        sealConvKey == getConversationKey(senderPrivkey, recipientPubkey)
        encryptedRumor == nip44_encrypt(rumorJson, sealConvKey)
        seal == finalizeEvent([kind |-> KindSeal, created_at |-> rnd.sealTs,
                               tags |-> <<>>, content |-> encryptedRumor],
                              senderPrivkey)
        sealJson == JSON_stringify(seal)
        wrapConvKey == getConversationKey(rnd.ephemeralKey,
                                          getPublicKey(senderPrivkey))
        encryptedSeal == nip44_encrypt(sealJson, wrapConvKey)
    IN  finalizeEvent([kind |-> KindGiftWrap, created_at |-> rnd.wrapTs,
                       tags |-> <<<<"p", recipientPubkey>>>>,
                       content |-> encryptedSeal],
                      rnd.ephemeralKey)

createGiftWrapLocal(senderPrivkey, rumor, recipientPubkey, rnd) ==
    LET rumorJson == JSON_stringify(rumor)
        sealConvKey == getConversationKey(senderPrivkey, recipientPubkey)
        encryptedRumor == nip44_encrypt(rumorJson, sealConvKey)
        seal == finalizeEvent([kind |-> KindSeal, created_at |-> rnd.sealTs,
                               tags |-> <<>>, content |-> encryptedRumor],
                              senderPrivkey)
        sealJson == JSON_stringify(seal)
        wrapConvKey == getConversationKey(rnd.ephemeralKey, recipientPubkey)
        encryptedSeal == nip44_encrypt(sealJson, wrapConvKey)
    IN  finalizeEvent([kind |-> KindGiftWrap, created_at |-> rnd.wrapTs,
                       tags |-> <<<<"p", recipientPubkey>>>>,
                       content |-> encryptedSeal],
                      rnd.ephemeralKey)

\* a plausible slip: the wrap is signed by the signer, like the seal, and
\* carries the pubkey of the sender
createGiftWrapForSigner_signedBySigner(signer, rumor, recipientPubkey, rnd) ==
    IF ~signer.nip44Encrypt THEN Throw
    ELSE
    LET rumorJson == JSON_stringify(rumor)
        encryptedRumor == signer_nip44Encrypt(signer, recipientPubkey, rumorJson)
        seal == signer_signEvent(signer,
                    [kind |-> KindSeal, created_at |-> rnd.sealTs,
                     tags |-> <<>>, content |-> encryptedRumor])
        sealJson == JSON_stringify(seal)
        conversationKey == getConversationKey(rnd.ephemeralKey, recipientPubkey)
        encryptedSeal == nip44_encrypt(sealJson, conversationKey)
    IN  Ok(signer_signEvent(signer,
               [kind |-> KindGiftWrap, created_at |-> rnd.wrapTs,
                tags |-> <<<<"p", recipientPubkey>>>>,
                content |-> encryptedSeal]))

createGiftWrapForSigner(signer, rumor, recipientPubkey, rnd) ==
    IF ~signer.nip44Encrypt THEN Throw
    ELSE
    LET rumorJson == JSON_stringify(rumor)
        encryptedRumor == signer_nip44Encrypt(signer, recipientPubkey, rumorJson)
        seal == signer_signEvent(signer,
                    [kind |-> KindSeal, created_at |-> rnd.sealTs,
                     tags |-> <<>>, content |-> encryptedRumor])
        sealJson == JSON_stringify(seal)
        conversationKey == getConversationKey(rnd.ephemeralKey, recipientPubkey)
        encryptedSeal == nip44_encrypt(sealJson, conversationKey)
    IN  Ok(finalizeEvent([kind |-> KindGiftWrap, created_at |-> rnd.wrapTs,
                          tags |-> <<<<"p", recipientPubkey>>>>,
                          content |-> encryptedSeal],
                         rnd.ephemeralKey))

\* throws on any decryption or parse failure; no seal / rumor pubkey check
unwrapGiftWrapLocal(wrap, recipientPrivkey) ==
    LET wrapConvKey == getConversationKey(recipientPrivkey, wrap.pubkey)
        sealJson == nip44_decrypt(wrap.content, wrapConvKey)
    IN  IF ~sealJson.ok THEN Throw
        ELSE
        LET sealParsed == JSON_parse(sealJson.val)
        IN  IF ~sealParsed.ok THEN Throw
            \* seal.pubkey of null: TypeError
            ELSE IF sealParsed.val = JsonNull THEN Throw
            ELSE
            LET seal == sealParsed.val
                sealConvKey == getConversationKey(recipientPrivkey, seal.pubkey)
                rumorJson == nip44_decrypt(seal.content, sealConvKey)
            IN  IF ~rumorJson.ok THEN Throw
                ELSE
                LET rumorParsed == JSON_parse(rumorJson.val)
                IN  IF ~rumorParsed.ok THEN Throw
                    ELSE IF rumorParsed.val = JsonNull THEN Null
                    ELSE rumorParsed

\* the delegated-signer branch of unwrapGiftWrap (lines 463-483)
unwrapGiftWrapSigner(wrap, signer) ==
    IF ~signer.nip44Decrypt THEN Throw
    ELSE
    LET sealJson == signer_nip44Decrypt(signer, wrap.pubkey, wrap.content)
    IN  IF ~sealJson.ok THEN Throw
        ELSE
        LET sealParsed == JSON_parse(sealJson.val)
        IN  IF ~sealParsed.ok THEN Throw
            \* seal.pubkey of null: TypeError
            ELSE IF sealParsed.val = JsonNull THEN Throw
            ELSE
            LET seal == sealParsed.val
                rumorJson == signer_nip44Decrypt(signer, seal.pubkey,
                                                 seal.content)
            IN  IF ~rumorJson.ok THEN Throw
                ELSE
                LET rumorParsed == JSON_parse(rumorJson.val)
                IN  IF ~rumorParsed.ok THEN Throw
                    \* rumor.pubkey of null: TypeError
                    ELSE IF rumorParsed.val = JsonNull THEN Throw
                    ELSE IF seal.pubkey # rumorParsed.val.pubkey THEN Null
                    ELSE rumorParsed

\* a plausible slip: the body without its try / catch
unwrapGiftWrap_noCatch(wrap, privateKey, signer) ==
    IF privateKey # NoPrivateKey
    THEN unwrapGiftWrapLocal(wrap, hexToBytes(privateKey))
    ELSE unwrapGiftWrapSigner(wrap, signer)

\* try { ... } catch { return null }
unwrapGiftWrap(wrap, privateKey, signer) ==
    IF privateKey # NoPrivateKey
    THEN LET r == unwrapGiftWrapLocal(wrap, hexToBytes(privateKey))
         IN  IF r.ok THEN r ELSE Null
    ELSE LET r == unwrapGiftWrapSigner(wrap, signer)
         IN  IF r.ok THEN r ELSE Null

(***************************************************************************)
(* Small helpers on JavaScript arrays and maps                             *)
(***************************************************************************)
Range(f) == {f[i] : i \in DOMAIN f}

Has(map, k) == k \in DOMAIN map

\* map.set(k, v) / obj[k] = v
Put(map, k, v) == (k :> v) @@ map

\* Array.from(new Set(xs)): later duplicates dropped, first occurrences kept
RECURSIVE ArrayFromSet(_)
ArrayFromSet(xs) ==
    IF xs = <<>> THEN <<>>
    ELSE LET front == ArrayFromSet(SubSeq(xs, 1, Len(xs) - 1))
             last == xs[Len(xs)]
         IN  IF last \in Range(front) THEN front ELSE Append(front, last)

\* a JavaScript string is the sequence of its characters; the characters
\* that occur are the hex digits 0..15 (in their code-unit order) and "+"
PlusSign == 16

\* the text of a pubkey: lowercase hex of a fixed length (two digits here)
Hex(p) == <<p \div 16, p % 16>>

\* a <= b in the order of Array.prototype.sort(): by code units, a proper
\* prefix first
RECURSIVE StringLeq(_, _)
StringLeq(a, b) ==
    IF a = <<>> THEN TRUE
    ELSE IF b = <<>> THEN FALSE
    ELSE IF a[1] # b[1] THEN a[1] < b[1]
    ELSE StringLeq(Tail(a), Tail(b))

\* xs.sort() on strings
RECURSIVE SortAscending(_)
SortAscending(xs) ==
    IF xs = <<>> THEN <<>>
    ELSE LET m == CHOOSE i \in 1..Len(xs) :
                      \A j \in 1..Len(xs) : StringLeq(xs[i], xs[j])
         IN  <<xs[m]>> \o SortAscending(SubSeq(xs, 1, m - 1)
                                        \o SubSeq(xs, m + 1, Len(xs)))

\* xs.join(sep)
RECURSIVE Join(_, _)
Join(xs, sep) ==
    IF xs = <<>> THEN <<>>
    ELSE IF Len(xs) = 1 THEN xs[1]
    ELSE xs[1] \o <<sep>> \o Join(Tail(xs), sep)

\* text.split(sep)
RECURSIVE Split(_, _)
Split(text, sep) ==
    IF \A i \in 1..Len(text) : text[i] # sep THEN <<text>>
    ELSE LET k == CHOOSE i \in 1..Len(text) :
                      /\ text[i] = sep
                      /\ \A j \in 1..(i - 1) : text[j] # sep
         IN  <<SubSeq(text, 1, k - 1)>>
             \o Split(SubSeq(text, k + 1, Len(text)), sep)

\* tags.filter(t => t[0] === name)
TagsNamed(tags, name) == SelectSeq(tags, LAMBDA t : t[1] = name)

\* tags.filter(t => t[0] === name).map(t => t[1])
TagValues(tags, name) ==
    [i \in 1..Len(TagsNamed(tags, name)) |-> TagsNamed(tags, name)[i][2]]

(***************************************************************************)
(* Inbox relay resolver (nip17.ts, lines 37-129)                           *)
(*   rs = [cache, store, refreshes]: inboxRelayCache, the localStorage     *)
(*   entries inbox_relays_<pubkey>, and the background refreshes that were *)
(*   started and have not answered yet.                                    *)
(*   net = the answer of nostrRuntime.fetchOne: [outcome, tags,            *)
(*   created_at], outcome "throw", "none" (null) or "event".               *)
(***************************************************************************)
FallbackRelays == <<"wss://relay.damus.io/">>

\* src/nostr/index.ts is not part of the sources at hand; the relay list is
\* taken to be the single well-known default relay of the design
defaultRelays == <<"wss://relay.damus.io/">>

NetThrow == [outcome |-> "throw", tags |-> <<>>, created_at |-> 0]
NetNone == [outcome |-> "none", tags |-> <<>>, created_at |-> 0]
NetEvent(relays, at) ==
    [outcome |-> "event",
     tags |-> [i \in 1..Len(relays) |-> <<"relay", relays[i]>>],
     created_at |-> at]

readRelayStore(rs, pubkey) ==
    IF Has(rs.store, pubkey) THEN Ok(rs.store[pubkey]) ELSE Null

writeRelayStore(rs, pubkey, data) ==
    [rs EXCEPT !.store = Put(rs.store, pubkey, data)]

\* a plausible slip: the fallback is returned but not cached
fetchRelaysFromNetwork_fallbackNotCached(rs, pubkey, knownAt, persist, net) ==
    LET relays == TagValues(net.tags, "relay")
    IN  IF net.outcome = "event" /\ Len(relays) > 0 /\ net.created_at > knownAt
        THEN LET rs1 == [rs EXCEPT !.cache = Put(rs.cache, pubkey, relays)]
                 rs2 == IF persist
                        THEN writeRelayStore(rs1, pubkey,
                                 [relays |-> relays, created_at |-> net.created_at])
                        ELSE rs1
             IN  [rs |-> rs2, relays |-> relays]
        ELSE IF Has(rs.cache, pubkey)
        THEN [rs |-> rs, relays |-> rs.cache[pubkey]]
        ELSE [rs |-> rs, relays |-> FallbackRelays]

\* a plausible slip: an event as old as the stored one replaces it
fetchRelaysFromNetwork_notStrict(rs, pubkey, knownAt, persist, net) ==
    LET relays == TagValues(net.tags, "relay")
    IN  IF net.outcome = "event" /\ Len(relays) > 0 /\ net.created_at >= knownAt
        THEN LET rs1 == [rs EXCEPT !.cache = Put(rs.cache, pubkey, relays)]
                 rs2 == IF persist
                        THEN writeRelayStore(rs1, pubkey,
                                 [relays |-> relays, created_at |-> net.created_at])
                        ELSE rs1
             IN  [rs |-> rs2, relays |-> relays]
        ELSE IF Has(rs.cache, pubkey)
        THEN [rs |-> rs, relays |-> rs.cache[pubkey]]
        ELSE LET rs1 == [rs EXCEPT !.cache = Put(rs.cache, pubkey, FallbackRelays)]
                 rs2 == IF persist
                        THEN writeRelayStore(rs1, pubkey,
                                 [relays |-> FallbackRelays, created_at |-> 0])
                        ELSE rs1
             IN  [rs |-> rs2, relays |-> FallbackRelays]

fetchRelaysFromNetwork(rs, pubkey, knownAt, persist, net) ==
    LET relays == TagValues(net.tags, "relay")
    IN  IF net.outcome = "event" /\ Len(relays) > 0 /\ net.created_at > knownAt
        THEN LET rs1 == [rs EXCEPT !.cache = Put(rs.cache, pubkey, relays)]
                 rs2 == IF persist
                        THEN writeRelayStore(rs1, pubkey,
                                 [relays |-> relays, created_at |-> net.created_at])
                        ELSE rs1
             IN  [rs |-> rs2, relays |-> relays]
        ELSE IF Has(rs.cache, pubkey)
        THEN [rs |-> rs, relays |-> rs.cache[pubkey]]
        ELSE LET rs1 == [rs EXCEPT !.cache = Put(rs.cache, pubkey, FallbackRelays)]
                 rs2 == IF persist
                        THEN writeRelayStore(rs1, pubkey,
                                 [relays |-> FallbackRelays, created_at |-> 0])
                        ELSE rs1
             IN  [rs |-> rs2, relays |-> FallbackRelays]

\* a plausible slip: the localStorage entry is read whatever persist is
fetchInboxRelaysStart_readsAlways(rs, pubkey, persist) ==
    IF Has(rs.cache, pubkey)
    THEN [done |-> TRUE, rs |-> rs, relays |-> rs.cache[pubkey]]
    ELSE IF readRelayStore(rs, pubkey).ok
    THEN LET stored == readRelayStore(rs, pubkey).val
         IN  [done |-> TRUE,
              rs |-> [rs EXCEPT
                        !.cache = Put(rs.cache, pubkey, stored.relays),
                        !.refreshes = @ \cup {[pubkey |-> pubkey,
                                               knownAt |-> stored.created_at,
                                               persist |-> persist]}],
              relays |-> stored.relays]
    ELSE [done |-> FALSE, rs |-> rs, relays |-> <<>>]

\* fetchInboxRelays up to its first await: a memory hit or a localStorage hit
\* answers at once (the latter starts the background refresh), a cold start
\* waits for the network
fetchInboxRelaysStart(rs, pubkey, persist) ==
    IF Has(rs.cache, pubkey)
    THEN [done |-> TRUE, rs |-> rs, relays |-> rs.cache[pubkey]]
    ELSE IF persist /\ readRelayStore(rs, pubkey).ok
    THEN LET stored == readRelayStore(rs, pubkey).val
         IN  [done |-> TRUE,
              rs |-> [rs EXCEPT
                        !.cache = Put(rs.cache, pubkey, stored.relays),
                        !.refreshes = @ \cup {[pubkey |-> pubkey,
                                               knownAt |-> stored.created_at,
                                               persist |-> persist]}],
              relays |-> stored.relays]
    ELSE [done |-> FALSE, rs |-> rs, relays |-> <<>>]

(***************************************************************************)
(* Conversation state (DMProvider)                                         *)
(*   es = [conversations, seenRumorIds, dmCache, reactionStore, lastSeen]: *)
(*   the React state, the seen-set ref, and the localStorage entries       *)
(*   dm_cache_<wrapId>, dm_reactions_<conversationId>,                     *)
(*   dm_lastseen_<conversationId>.                                         *)
(***************************************************************************)
\* a plausible slip: the participants joined in the order they came in
getConversationId_unsorted(myPubkey, pTags) ==
    LET participants ==
            ArrayFromSet(<<Hex(myPubkey)>>
                         \o [i \in 1..Len(pTags) |-> Hex(pTags[i])])
    IN  Join(participants, PlusSign)

getConversationId(myPubkey, pTags) ==
    LET participants ==
            ArrayFromSet(<<Hex(myPubkey)>>
                         \o [i \in 1..Len(pTags) |-> Hex(pTags[i])])
    IN  Join(SortAscending(participants), PlusSign)

getCachedRumor(es, wrapId) ==
    IF Has(es.dmCache, wrapId) THEN Ok(es.dmCache[wrapId]) ELSE Null

setCachedRumor(es, wrapId, msg) ==
    [es EXCEPT !.dmCache = Put(es.dmCache, wrapId, msg)]

getLastSeen(es, conversationId) ==
    IF Has(es.lastSeen, conversationId) THEN es.lastSeen[conversationId] ELSE 0

setLastSeen(es, conversationId, timestamp) ==
    [es EXCEPT !.lastSeen = Put(es.lastSeen, conversationId, timestamp)]

\* a plausible slip: an unstable order, the new message goes before the
\* messages of the same second
RECURSIVE SortByCreatedAt_newestTieFirst(_)
SortByCreatedAt_newestTieFirst(msgs) ==
    IF msgs = <<>> THEN <<>>
    ELSE LET front == SortByCreatedAt_newestTieFirst(
                          SubSeq(msgs, 1, Len(msgs) - 1))
             last == msgs[Len(msgs)]
             k == Cardinality({i \in 1..Len(front) :
                                  front[i].created_at < last.created_at})
         IN  SubSeq(front, 1, k) \o <<last>> \o SubSeq(front, k + 1, Len(front))

\* [...messages, msg].sort((a, b) => a.created_at - b.created_at): stable
RECURSIVE SortByCreatedAt(_)
SortByCreatedAt(msgs) ==
    IF msgs = <<>> THEN <<>>
    ELSE LET front == SortByCreatedAt(SubSeq(msgs, 1, Len(msgs) - 1))
             last == msgs[Len(msgs)]
             k == Cardinality({i \in 1..Len(front) :
                                  front[i].created_at <= last.created_at})
         IN  SubSeq(front, 1, k) \o <<last>> \o SubSeq(front, k + 1, Len(front))

\* a plausible slip: the entries compared as objects (r === reaction), which
\* a freshly built reaction never is
SameReaction_byIdentity(r, reaction) == FALSE

\* r.pubkey === reaction.pubkey && r.emoji === reaction.emoji
SameReaction(r, reaction) ==
    r.pubkey = reaction.pubkey /\ r.emoji = reaction.emoji

\* the names every JavaScript object answers to without owning them
\* (Object.prototype); a message id is a tuple here, a name the tuple of it
ObjectPrototypeKeys ==
    {<<"constructor">>, <<"__proto__">>, <<"hasOwnProperty">>,
     <<"isPrototypeOf">>, <<"propertyIsEnumerable">>, <<"toLocaleString">>,
     <<"toString">>, <<"valueOf">>, <<"__defineGetter__">>,
     <<"__defineSetter__">>, <<"__lookupGetter__">>, <<"__lookupSetter__">>}

\* rumor.tags.find((t) => t[0] === "e")?.[1]: the value of the first e tag;
\* <<>> is "undefined" and the empty string, the values the test
\* !targetMessageId takes for "no target"
firstETag(tags) ==
    LET eTags == TagsNamed(tags, "e")
    IN  IF eTags = <<>> \/ Len(eTags[1]) < 2 THEN <<>> ELSE eTags[1][2]

addReactionToConversation(es, rumor, myPubkey) ==
    LET pTags == TagValues(rumor.tags, "p")
        conversationId == getConversationId(rumor.pubkey, pTags)
        targetMessageId == firstETag(rumor.tags)
    IN  IF targetMessageId = <<>> THEN es
        ELSE
        LET reaction == [emoji |-> rumor.content, pubkey |-> rumor.pubkey,
                         tags |-> TagsNamed(rumor.tags, "emoji")]
            \* Cache reaction.  reactions[targetMessageId] of the parsed
            \* record is Object.prototype's value for a name of
            \* ObjectPrototypeKeys: .some is no function, the TypeError is
            \* caught and nothing is stored
            reactions == IF Has(es.reactionStore, conversationId)
                         THEN es.reactionStore[conversationId] ELSE <<>>
            stored == IF Has(reactions, targetMessageId)
                      THEN reactions[targetMessageId] ELSE <<>>
            es1 == IF \/ targetMessageId \in ObjectPrototypeKeys
                      \/ \E i \in 1..Len(stored) :
                            SameReaction(stored[i], reaction)
                   THEN es
                   ELSE [es EXCEPT !.reactionStore =
                            Put(es.reactionStore, conversationId,
                                Put(reactions, targetMessageId,
                                    Append(stored, reaction)))]
        IN  \* setConversations
            IF ~Has(es1.conversations, conversationId) THEN es1
            ELSE
            LET existing == es1.conversations[conversationId]
                existing_reactions ==
                    IF Has(existing.reactions, targetMessageId)
                    THEN existing.reactions[targetMessageId] ELSE <<>>
            IN  IF \E i \in 1..Len(existing_reactions) :
                       SameReaction(existing_reactions[i], reaction)
                THEN es1
                ELSE [es1 EXCEPT !.conversations =
                        Put(es1.conversations, conversationId,
                            [existing EXCEPT !.reactions =
                                Put(existing.reactions, targetMessageId,
                                    Append(existing_reactions, reaction))])]

\* a plausible slip: the own messages count as unread too
isUnread_countsOwn(rumor, myPubkey, lastSeen) ==
    rumor.created_at > lastSeen

isUnread(rumor, myPubkey, lastSeen) ==
    rumor.pubkey # myPubkey /\ rumor.created_at > lastSeen

Max(a, b) == IF a >= b THEN a ELSE b

\* a plausible slip: deduplication by the wire-event id, not the rumor id
addMessage_dedupByWrapId(es, rumor, wrapId, myPubkey) ==
    IF wrapId \in es.seenRumorIds THEN es
    ELSE
    LET es1 == [es EXCEPT !.seenRumorIds = @ \cup {wrapId}]
    IN  IF rumor.kind = KindReaction
        THEN addReactionToConversation(es1, rumor, myPubkey)
        ELSE
        LET pTags == TagValues(rumor.tags, "p")
            conversationId == getConversationId(rumor.pubkey, pTags)
            participants == Split(conversationId, PlusSign)
            msg == [id |-> rumor.id, wrapId |-> wrapId, pubkey |-> rumor.pubkey,
                    content |-> rumor.content, created_at |-> rumor.created_at,
                    tags |-> rumor.tags]
            es2 == setCachedRumor(es1, wrapId, msg)
            cachedReactions == IF Has(es2.reactionStore, conversationId)
                               THEN es2.reactionStore[conversationId] ELSE <<>>
            lastSeen == getLastSeen(es2, conversationId)
        IN  IF Has(es2.conversations, conversationId)
            THEN LET existing == es2.conversations[conversationId]
                 IN  IF \E i \in 1..Len(existing.messages) :
                            existing.messages[i].wrapId = wrapId
                     THEN es2
                     ELSE [es2 EXCEPT !.conversations =
                            Put(es2.conversations, conversationId,
                                [existing EXCEPT
                                   !.messages = SortByCreatedAt(Append(@, msg)),
                                   !.lastMessageAt = Max(@, rumor.created_at),
                                   !.unreadCount = @ +
                                       (IF isUnread(rumor, myPubkey, lastSeen)
                                        THEN 1 ELSE 0)])]
            ELSE [es2 EXCEPT !.conversations =
                    Put(es2.conversations, conversationId,
                        [id |-> conversationId,
                         participants |-> participants,
                         messages |-> <<msg>>,
                         lastMessageAt |-> rumor.created_at,
                         unreadCount |-> IF isUnread(rumor, myPubkey, lastSeen)
                                         THEN 1 ELSE 0,
                         reactions |-> cachedReactions])]

addMessage(es, rumor, wrapId, myPubkey) ==
    \* Dedup by rumor.id
    IF rumor.id \in es.seenRumorIds THEN es
    ELSE
    LET es1 == [es EXCEPT !.seenRumorIds = @ \cup {rumor.id}]
    IN  \* Handle kind 7 reaction rumors
        IF rumor.kind = KindReaction
        THEN addReactionToConversation(es1, rumor, myPubkey)
        ELSE
        LET pTags == TagValues(rumor.tags, "p")
            conversationId == getConversationId(rumor.pubkey, pTags)
            \* conversationId.split("+")
            participants == Split(conversationId, PlusSign)
            msg == [id |-> rumor.id, wrapId |-> wrapId, pubkey |-> rumor.pubkey,
                    content |-> rumor.content, created_at |-> rumor.created_at,
                    tags |-> rumor.tags]
            \* Cache decrypted message
            es2 == setCachedRumor(es1, wrapId, msg)
            \* Load cached reactions for this conversation
            cachedReactions == IF Has(es2.reactionStore, conversationId)
                               THEN es2.reactionStore[conversationId] ELSE <<>>
            lastSeen == getLastSeen(es2, conversationId)
        IN  IF Has(es2.conversations, conversationId)
            THEN LET existing == es2.conversations[conversationId]
                 IN  IF \E i \in 1..Len(existing.messages) :
                            existing.messages[i].id = rumor.id
                     THEN es2
                     ELSE [es2 EXCEPT !.conversations =
                            Put(es2.conversations, conversationId,
                                [existing EXCEPT
                                   !.messages = SortByCreatedAt(Append(@, msg)),
                                   !.lastMessageAt = Max(@, rumor.created_at),
                                   !.unreadCount = @ +
                                       (IF isUnread(rumor, myPubkey, lastSeen)
                                        THEN 1 ELSE 0)])]
            ELSE [es2 EXCEPT !.conversations =
                    Put(es2.conversations, conversationId,
                        [id |-> conversationId,
                         participants |-> participants,
                         messages |-> <<msg>>,
                         lastMessageAt |-> rumor.created_at,
                         unreadCount |-> IF isUnread(rumor, myPubkey, lastSeen)
                                         THEN 1 ELSE 0,
                         reactions |-> cachedReactions])]

\* onEvent, cache hit: the cached DMMessage becomes a rumor again; a
\* DMMessage has no kind field, so kind is (cached as any).kind || 14
fakeRumor(cached) ==
    [id |-> cached.id, pubkey |-> cached.pubkey, content |-> cached.content,
     created_at |-> cached.created_at, tags |-> cached.tags, kind |-> KindDM]

\* conversation.unreadCount, 0 for a conversation that does not exist
UnreadOf(convs, c) == IF c \in DOMAIN convs THEN convs[c].unreadCount ELSE 0

\* a plausible slip: the counter reset of markAllAsRead applied here
markAsRead_allConversations(es, conversationId, now) ==
    LET es1 == setLastSeen(es, conversationId, now)
    IN  [es1 EXCEPT !.conversations =
             [c \in DOMAIN @ |-> [@[c] EXCEPT !.unreadCount = 0]]]

markAsRead(es, conversationId, now) ==
    LET es1 == setLastSeen(es, conversationId, now)
    IN  IF Has(es1.conversations, conversationId)
           /\ es1.conversations[conversationId].unreadCount > 0
        THEN [es1 EXCEPT !.conversations[conversationId].unreadCount = 0]
        ELSE es1

\* a plausible slip: the read time is stamped on every conversation
markAllAsRead_stampsAll(es, now) ==
    LET ids == DOMAIN es.conversations
    IN  [es EXCEPT
            !.lastSeen = [id \in DOMAIN es.lastSeen \cup ids |->
                             IF id \in ids THEN now ELSE es.lastSeen[id]],
            !.conversations = [id \in ids |->
                                  [es.conversations[id] EXCEPT !.unreadCount = 0]]]

\* forEach over the entries: a conversation with unreadCount > 0 gets
\* setLastSeen(id, now) and unreadCount 0, the others are left as they are
markAllAsRead(es, now) ==
    LET unread == {id \in DOMAIN es.conversations :
                      es.conversations[id].unreadCount > 0}
    IN  [es EXCEPT
            !.lastSeen = [id \in DOMAIN es.lastSeen \cup unread |->
                             IF id \in unread THEN now ELSE es.lastSeen[id]],
            !.conversations = [id \in DOMAIN es.conversations |->
                                  IF id \in unread
                                  THEN [es.conversations[id]
                                           EXCEPT !.unreadCount = 0]
                                  ELSE es.conversations[id]]]

\* Array.from(conversations.values()).reduce((sum, c) => sum + c.unreadCount, 0)
RECURSIVE SumUnread(_, _)
SumUnread(convs, ids) ==
    IF ids = {} THEN 0
    ELSE LET id == CHOOSE i \in ids : TRUE
         IN  convs[id].unreadCount + SumUnread(convs, ids \ {id})

unreadTotal(convs) == SumUnread(convs, DOMAIN convs)

(***************************************************************************)
(* Sending (nip17.ts wrapAndSendDM, DMProvider.sendMessage)                *)
(*   A publish promise is [relay, event, state], state "pending",          *)
(*   "resolved" or "rejected"; the promises of the run are the list pubs,  *)
(*   and a promise is named by its index in it.                            *)
(***************************************************************************)
\* pool.publish(relays, event): one promise per relay, in the relays' order
pool_publish(relays, event) ==
    [i \in 1..Len(relays) |->
        [relay |-> relays[i], event |-> event, state |-> "pending"]]

\* a plausible slip: one publish per unique relay, of the first wrap naming it
RECURSIVE PublishAll_oncePerRelay(_)
PublishAll_oncePerRelay(wraps) ==
    IF wraps = <<>> THEN <<>>
    ELSE LET n == Len(wraps)
             front == PublishAll_oncePerRelay(SubSeq(wraps, 1, n - 1))
             named == {front[i].relay : i \in 1..Len(front)}
         IN  front \o pool_publish(
                 SelectSeq(wraps[n].relays, LAMBDA r : r \notin named),
                 wraps[n].event)

\* for (const { event, relays } of wraps) pool.publish(relays, event)
RECURSIVE PublishAll(_)
PublishAll(wraps) ==
    IF wraps = <<>> THEN <<>>
    ELSE LET n == Len(wraps)
         IN  PublishAll(SubSeq(wraps, 1, n - 1))
             \o pool_publish(wraps[n].relays, wraps[n].event)

\* a plausible slip: no deduplication, every promise is handed to the tracker
RelayMapValues_perPublish(issued, base) ==
    [k \in 1..Len(issued) |->
        [relay |-> issued[k].relay, promise |-> base + k]]

\* relayMap: the first promise of every relay, in insertion order
\* (base = the number of promises that existed before the call)
RelayMapValues(issued, base) ==
    LET firsts == SelectSeq([i \in 1..Len(issued) |-> i],
                            LAMBDA i : \A j \in 1..(i - 1) :
                                          issued[j].relay # issued[i].relay)
    IN  [k \in 1..Len(firsts) |->
            [relay |-> issued[firsts[k]].relay, promise |-> base + firsts[k]]]

(***************************************************************************)
(* A call of the send path (wrapAndSendDM, wrapAndSendReaction,            *)
(* publishInboxRelays) is a record that lives from the handler's start to  *)
(* its return or throw:                                                    *)
(*   kind            "dm", "reaction" or "relayList"                       *)
(*   myPubkey, privateKey   user.pubkey, user.privateKey of the closure    *)
(*   signer, senderPubkey   what getSigner() / getPublicKey() returned     *)
(*   recipientInbox, senderInbox   Null while the lookup waits             *)
(*   rumor           Null until createRumor ran (the template to sign of   *)
(*                   a relayList call)                                     *)
(*   wraps           the gift wraps built so far                           *)
(*   sealTs          created_at of the seal the signer is signing          *)
(*   sent            number of wraps whose publishes were issued           *)
(*   waiting         the promises an "await Promise.allSettled" waits for  *)
(*   mounted         the ChatView whose handler made the call is still     *)
(*                   mounted (its state setters still have an effect)      *)
(*   stage           the await the call stands at: "lookups", "encrypt"    *)
(*                   (signer.nip44Encrypt), "sign" (signer.signEvent),     *)
(*                   "settle" (Promise.allSettled)                         *)
(***************************************************************************)
NewCall(id, kind, recipientPubkey, content, replyToId, extraTags, u, signer) ==
    [id |-> id, kind |-> kind, recipientPubkey |-> recipientPubkey,
     content |-> content, replyToId |-> replyToId, extraTags |-> extraTags,
     myPubkey |-> u.pubkey, privateKey |-> u.privateKey,
     signer |-> signer, senderPubkey |-> signer.pubkey,
     recipientInbox |-> Null, senderInbox |-> Null, rumor |-> Null,
     wraps |-> <<>>, sealTs |-> 0, sent |-> 0, waiting |-> {},
     stage |-> "lookups", mounted |-> TRUE]

\* Promise.all([fetchInboxRelays(recipientPubkey),
\*              fetchInboxRelays(senderPubkey, true)]) up to the await: both
\* lookups start, a lookup that is answered at once has its list
startLookups(rs, call) ==
    LET s1 == fetchInboxRelaysStart(rs, call.recipientPubkey, FALSE)
        s2 == fetchInboxRelaysStart(s1.rs, call.senderPubkey, TRUE)
    IN  [rs |-> s2.rs,
         call |-> [call EXCEPT
                     !.recipientInbox = IF s1.done THEN Ok(s1.relays) ELSE Null,
                     !.senderInbox = IF s2.done THEN Ok(s2.relays) ELSE Null]]

\* createRumor(senderPubkey, recipientPubkey, content, replyToId) of a DM,
\* createRumor(senderPubkey, recipientPubkey, emoji, undefined, 7,
\* [["e", targetMessageId]]) of a reaction
callRumor(call, now) ==
    createRumor(call.senderPubkey, call.recipientPubkey, call.content,
                call.replyToId,
                IF call.kind = "reaction" THEN KindReaction ELSE KindDM,
                call.extraTags, now)

recipientRelays(call) == ArrayFromSet(call.recipientInbox.val \o defaultRelays)
senderRelays(call) == ArrayFromSet(call.senderInbox.val \o defaultRelays)

\* a plausible slip: the copy for the sender wrapped for the recipient again
WrapRecipient_bothToRecipient(call, k) == call.recipientPubkey

\* whom wrap k of a call is made for: the recipient first, then the sender
WrapRecipient(call, k) ==
    IF k = 1 THEN call.recipientPubkey ELSE call.senderPubkey

\* the two createGiftWrapLocal calls of the private-key path
localWraps(call, rumor, draws) ==
    [k \in 1..2 |->
        createGiftWrapLocal(hexToBytes(call.privateKey), rumor,
                            WrapRecipient(call, k), draws[k])]

\* the SendResult of wrapAndSendDM for its two wraps, and the promises
\* pool.publish returned (base = the number of promises issued before)
SendResult(call, events, base) ==
    LET wraps == <<[event |-> events[1], relays |-> recipientRelays(call)],
                   [event |-> events[2], relays |-> senderRelays(call)]>>
        issued == PublishAll(wraps)
    IN  [rumor |-> call.rumor.val,
         publishes |-> RelayMapValues(issued, base),
         retryWraps |-> wraps,
         issued |-> issued]

\* the kind-10050 template of publishInboxRelays(relays)
relayListTemplate(relays, now) ==
    [kind |-> KindRelayList, created_at |-> now,
     tags |-> [i \in 1..Len(relays) |-> <<"relay", relays[i]>>],
     content |-> ""]

(***************************************************************************)
(* Publish / retry tracker (ChatView)                                      *)
(*   ts = [sendStatuses, races, pubs].  A race is one                      *)
(*   Promise.race([promise, timeout]) with its then / catch callbacks:     *)
(*   [rumorId, relay, promise, timer, settled, mounted], timer "armed" or  *)
(*   "fired".  sendStatuses and replyTo are state of the ChatView          *)
(*   component (lines 45-47): they go with the view when the route         *)
(*   changes, while the promises and timers of its races go on; mounted    *)
(*   tells whether the view that set the race up is still there, a state   *)
(*   setter of an unmounted view changes nothing.                          *)
(***************************************************************************)
updateRelayStatus(statuses, rumorId, relay, status) ==
    IF Has(statuses, rumorId)
    THEN Put(statuses, rumorId,
             [statuses[rumorId] EXCEPT !.relays = Put(@, relay, status)])
    ELSE statuses

NewRace(rumorId, relay, promise) ==
    [rumorId |-> rumorId, relay |-> relay, promise |-> promise,
     timer |-> "armed", settled |-> FALSE, mounted |-> TRUE]

\* mounted: the view whose handleSend calls it is still mounted
trackRelays(ts, tracking, mounted) ==
    LET publishes == tracking.publishes
        initialRelays == [r \in {publishes[i].relay : i \in 1..Len(publishes)}
                             |-> "pending"]
    IN  [ts EXCEPT
           !.sendStatuses = IF mounted
                            THEN Put(@, tracking.rumorId,
                                     [relays |-> initialRelays,
                                      retryWraps |-> tracking.retryWraps])
                            ELSE @,
           !.races = @ \o [i \in 1..Len(publishes) |->
                              [NewRace(tracking.rumorId, publishes[i].relay,
                                       publishes[i].promise)
                                  EXCEPT !.mounted = mounted]]]

\* the races handleRetry sets up: one per (wrap, relay of the wrap) that the
\* record tracks, on the promise pool.publish just returned for it
RECURSIVE RetryRaces(_, _, _, _)
RetryRaces(rumorId, issued, base, tracked) ==
    IF issued = <<>> THEN <<>>
    ELSE LET n == Len(issued)
             front == RetryRaces(rumorId, SubSeq(issued, 1, n - 1), base, tracked)
         IN  IF issued[n].relay \in tracked
             THEN Append(front, NewRace(rumorId, issued[n].relay, base + n))
             ELSE front

\* a plausible slip: retry wraps the rumor again instead of republishing
handleRetry_rewraps(ts, rumorId) ==
    IF ~Has(ts.sendStatuses, rumorId) THEN ts
    ELSE
    LET status == ts.sendStatuses[rumorId]
        resetRelays == [r \in DOMAIN status.relays |-> "pending"]
        trackedRelays == DOMAIN status.relays
        rewrapped == [i \in 1..Len(status.retryWraps) |->
                        [event |-> [status.retryWraps[i].event EXCEPT
                                      !.pubkey = @ + 1000,
                                      !.sig = [by |-> status.retryWraps[i].event.pubkey + 1000]],
                         relays |-> status.retryWraps[i].relays]]
        issued == PublishAll(rewrapped)
    IN  [sendStatuses |-> Put(ts.sendStatuses, rumorId,
                              [status EXCEPT !.relays = resetRelays]),
         pubs |-> ts.pubs \o issued,
         races |-> ts.races \o RetryRaces(rumorId, issued, Len(ts.pubs),
                                         trackedRelays)]

handleRetry(ts, rumorId) ==
    IF ~Has(ts.sendStatuses, rumorId) THEN ts
    ELSE
    LET status == ts.sendStatuses[rumorId]
        resetRelays == [r \in DOMAIN status.relays |-> "pending"]
        trackedRelays == DOMAIN status.relays
        issued == PublishAll(status.retryWraps)
    IN  [sendStatuses |-> Put(ts.sendStatuses, rumorId,
                              [status EXCEPT !.relays = resetRelays]),
         pubs |-> ts.pubs \o issued,
         races |-> ts.races \o RetryRaces(rumorId, issued, Len(ts.pubs),
                                         trackedRelays)]

\* MessageBubble: "Not delivered" and Retry are shown when every relay of the
\* record is failed or timeout
allFailed(status) ==
    /\ DOMAIN status.relays # {}
    /\ \A r \in DOMAIN status.relays : status.relays[r] \in {"failed", "timeout"}

\* entries.every(([, s]) => s === "sent"): the bubble renders no status line
allSent(status) ==
    \A r \in DOMAIN status.relays : status.relays[r] = "sent"

\* what the bubble renders for a record: nothing, the relay dots, or
\* "Not delivered" with Retry (onRetry is always passed by ChatView)
RelayStatusLine(status) ==
    IF allSent(status) THEN "none"
    ELSE IF allFailed(status) THEN "notDeliveredRetry"
    ELSE "dots"

\* a plausible slip: the callbacks hang on the publish promise and on the
\* timer separately, so the later of the two overwrites the status
RaceCallback_noRace(statuses, race, status) ==
    IF ~race.mounted THEN statuses
    ELSE updateRelayStatus(statuses, race.rumorId, race.relay, status)

\* Promise.race(...).then / .catch: only the first settlement of a race
\* runs a callback, which sets the state of the view that set the race up
RaceCallback(statuses, race, status) ==
    IF race.settled \/ ~race.mounted THEN statuses
    ELSE updateRelayStatus(statuses, race.rumorId, race.relay, status)

\* the callbacks of every race that waits on promise p, in the races' order
RECURSIVE SettleRacesOf(_, _, _, _)
SettleRacesOf(statuses, raceList, p, status) ==
    IF raceList = <<>> THEN statuses
    ELSE LET n == Len(raceList)
             before == SettleRacesOf(statuses, SubSeq(raceList, 1, n - 1),
                                     p, status)
         IN  IF raceList[n].promise = p
             THEN RaceCallback(before, raceList[n], status)
             ELSE before

\* the random draws of one wrap: the ephemeral key and the two timestamps
RandomDraw(n, now, sealOffset, wrapOffset) ==
    [ephemeralKey |-> generateSecretKey(n),
     sealTs |-> randomTimestamp(now, sealOffset),
     wrapTs |-> randomTimestamp(now, wrapOffset)]

(***************************************************************************)
(* The state as the records the operators work on                          *)
(***************************************************************************)
ES ==
    [conversations |-> conversations, seenRumorIds |-> seenRumorIds,
     dmCache |-> dmCache, reactionStore |-> reactionStore,
     lastSeen |-> lastSeenStore]

SetES(es) ==
    /\ conversations' = es.conversations
    /\ seenRumorIds' = es.seenRumorIds
    /\ dmCache' = es.dmCache
    /\ reactionStore' = es.reactionStore
    /\ lastSeenStore' = es.lastSeen

RS == [cache |-> inboxRelayCache, store |-> relayStore, refreshes |-> refreshes]

SetRS(rs) ==
    /\ inboxRelayCache' = rs.cache
    /\ relayStore' = rs.store
    /\ refreshes' = rs.refreshes

TS == [sendStatuses |-> sendStatuses, races |-> races, pubs |-> pubs]

SetTS(ts) ==
    /\ sendStatuses' = ts.sendStatuses
    /\ races' = ts.races
    /\ pubs' = ts.pubs

NoUser == [pubkey |-> 0, privateKey |-> NoPrivateKey]
LocalUser(p) == [pubkey |-> p, privateKey |-> SecretKey(p)]
SignerUser(p) == [pubkey |-> p, privateKey |-> NoPrivateKey]

ProtoIdle == pIn = Null /\ pWrap = Null /\ pOut = Null /\ pPc = "off"

SessionOf(u) ==
    /\ user = u
    /\ activeSigner = Signer(u.pubkey, TRUE, TRUE)
    /\ clock = 1
    /\ ephCount = 0

\* a session whose signer (a browser extension, a remote signer) may offer
\* no nip44Encrypt
SessionWith(u, canEncrypt) ==
    /\ user = u
    /\ activeSigner = Signer(u.pubkey, canEncrypt, TRUE)
    /\ clock = 1
    /\ ephCount = 0

\* localStorage of a browser that never ran the client
StorageEmpty ==
    /\ dmCache = <<>>
    /\ reactionStore = <<>>
    /\ lastSeenStore = <<>>
    /\ relayStore = <<>>

TrackEmpty == pubs = <<>> /\ races = <<>> /\ sendStatuses = <<>>

CountsZero == sends = 0 /\ retries = 0 /\ lastOp = [op |-> "init"]

(***************************************************************************)
(* Wire events the relays can deliver to the subscription of Alice         *)
(***************************************************************************)
PeerDraw(n) == RandomDraw(100 + n, 2, 0, 0)

PeerRumor == createRumor(Bob, Alice, "hi", <<>>, KindDM, <<>>, 1)
\* a DM of Alice to Bob
OwnRumor == createRumor(Alice, Bob, "yo", <<>>, KindDM, <<>>, 1)
\* a DM of a second peer: a second conversation
OtherRumor == createRumor(Mallory, Alice, "hi", <<>>, KindDM, <<>>, 2)

WireEvents ==
    << \* a DM of Bob, wrapped twice (two wraps, one rumor)
       createGiftWrapLocal(SecretKey(Bob), PeerRumor, Alice, PeerDraw(1)),
       createGiftWrapLocal(SecretKey(Bob), PeerRumor, Alice, PeerDraw(2)),
       \* a DM of Mallory
       createGiftWrapLocal(SecretKey(Mallory), OtherRumor, Alice, PeerDraw(3)),
       \* a wrap tagged for Alice that only Mallory can open
       [createGiftWrapLocal(SecretKey(Bob), PeerRumor, Mallory, PeerDraw(4))
           EXCEPT !.tags = <<<<"p", Alice>>>>],
       \* the self-copy of a DM Alice sent to Bob from another device
       createGiftWrapLocal(SecretKey(Alice), OwnRumor, Alice, PeerDraw(11)) >>

\* the wraps this client published that are tagged for the local user: the
\* self-copies of its own messages, which the relays deliver back
SelfCopies ==
    {pubs[i].event : i \in {j \in 1..Len(pubs) :
                              pubs[j].event.tags = <<<<"p", user.pubkey>>>>}}

\* what a relay can deliver
Deliverable == Range(WireEvents) \cup SelfCopies

(***************************************************************************)
(* ChatView effects (lines 66-94) at the mount of the view and at a change *)
(* of the user; after a later commit they are a task of their own          *)
(* (AutoMarkAsRead)                                                        *)
(***************************************************************************)
\* lines 66-72 and 90-94: the conversation of the chat that opens is marked
\* as read if it has unread messages
ChatViewEffect(es, u, c, now) ==
    IF u = NoUser \/ c = 0 THEN es
    ELSE LET conversationId == getConversationId(u.pubkey, <<c>>)
         IN  IF /\ Has(es.conversations, conversationId)
                /\ es.conversations[conversationId].unreadCount > 0
             THEN markAsRead(es, conversationId, now)
             ELSE es

\* lines 83-88: the two relay lookups started, not awaited, when the chat
\* opens or the user changes (waiting = the cold lookups in flight)
prefetch(rs, waiting, u, c) ==
    IF u = NoUser \/ c = 0 THEN [rs |-> rs, lookups |-> waiting]
    ELSE LET s1 == fetchInboxRelaysStart(rs, c, FALSE)
             s2 == fetchInboxRelaysStart(s1.rs, u.pubkey, TRUE)
         IN  [rs |-> s2.rs,
              lookups |-> waiting
                  (+) (IF s1.done THEN EmptyBag
                       ELSE SetToBag({[pubkey |-> c, persist |-> FALSE]}))
                  (+) (IF s2.done THEN EmptyBag
                       ELSE SetToBag({[pubkey |-> u.pubkey, persist |-> TRUE]}))]

\* the ids of the messages the open chat shows (lines 66-72)
ShownIds ==
    IF user = NoUser \/ chat = 0 THEN {}
    ELSE LET conversationId == getConversationId(user.pubkey, <<chat>>)
         IN  IF Has(conversations, conversationId)
             THEN {conversations[conversationId].messages[i].id :
                      i \in 1..Len(conversations[conversationId].messages)}
             ELSE {}

(***************************************************************************)
(* Handlers                                                                *)
(***************************************************************************)
\* the relay pool resolves a publish promise
PublishResolves(p) ==
    /\ pubs[p].state = "pending"
    /\ pubs' = [pubs EXCEPT ![p].state = "resolved"]
    /\ sendStatuses' = SettleRacesOf(sendStatuses, races, p, "sent")
    /\ races' = [j \in 1..Len(races) |->
                    IF races[j].promise = p
                    THEN [races[j] EXCEPT !.settled = TRUE] ELSE races[j]]
    /\ lastOp' = [op |-> "publishSettles"]
    /\ UNCHANGED <<protoVars, chatVars, subscriptionVars, calls, lookups, sessionVars, engineVars, resolverVars, sends, retries>>

\* the relay pool rejects a publish promise
PublishRejects(p) ==
    /\ pubs[p].state = "pending"
    /\ pubs' = [pubs EXCEPT ![p].state = "rejected"]
    /\ sendStatuses' = SettleRacesOf(sendStatuses, races, p, "failed")
    /\ races' = [j \in 1..Len(races) |->
                    IF races[j].promise = p
                    THEN [races[j] EXCEPT !.settled = TRUE] ELSE races[j]]
    /\ lastOp' = [op |-> "publishSettles"]
    /\ UNCHANGED <<protoVars, chatVars, subscriptionVars, calls, lookups, sessionVars, engineVars, resolverVars, sends, retries>>

\* the setTimeout of a race fires after SEND_TIMEOUT_MS
TimerFires(j) ==
    /\ races[j].timer = "armed"
    /\ sendStatuses' = RaceCallback(sendStatuses, races[j], "timeout")
    /\ races' = [races EXCEPT ![j].timer = "fired", ![j].settled = TRUE]
    /\ lastOp' = [op |-> "timerFires"]
    /\ UNCHANGED <<protoVars, chatVars, subscriptionVars, calls, lookups, sessionVars, engineVars, resolverVars, pubs, sends, retries>>

\* ChatView.handleRetry(rumorId)
HandleRetry(rumorId) ==
    /\ SetTS(handleRetry(TS, rumorId))
    /\ retries' = retries + 1
    /\ lastOp' = [op |-> "handleRetry", rumorId |-> rumorId]
    /\ UNCHANGED <<protoVars, chatVars, subscriptionVars, calls, lookups, sessionVars, engineVars, resolverVars, sends>>

\* a plausible slip: the cache lookup dropped, every wrap is decrypted
onEvent_alwaysUnwrap(myPubkey, privateKey, event) ==
    /\ inflight' = inflight (+) SetToBag(
                       {[event |-> event, myPubkey |-> myPubkey,
                         privateKey |-> privateKey,
                         signer |-> activeSigner]})
    /\ UNCHANGED <<conversations, seenRumorIds, dmCache,
                   reactionStore, lastSeenStore>>
    /\ lastOp' = [op |-> "onEvent", wrapId |-> event.id]
    /\ UNCHANGED <<protoVars, chatVars, subscriptionVars, calls, lookups, sessionVars, resolverVars, trackVars, sends, retries>>

\* onEvent after unwrapGiftWrap has answered: a rumor is folded, null is
\* dropped.  React commits the new state; the effects of the commit are a
\* later task (AutoMarkAsRead).
afterUnwrap_marksSeen(x) ==
    LET rumor == unwrapGiftWrap(x.event, x.privateKey, x.signer)
    IN  IF rumor.ok
        THEN /\ SetES(addMessage(ES, rumor.val, x.event.id, x.myPubkey))
             /\ lastOp' = [op |-> "fold", wrapId |-> x.event.id,
                           rumorId |-> rumor.val.id, from |-> "unwrap"]
        ELSE /\ seenRumorIds' = seenRumorIds \cup {x.event.id}
             /\ UNCHANGED <<conversations, dmCache,
                            reactionStore, lastSeenStore>>
             /\ lastOp' = [op |-> "dropped"]

afterUnwrap(x) ==
    LET rumor == unwrapGiftWrap(x.event, x.privateKey, x.signer)
    IN  IF rumor.ok
        THEN /\ SetES(addMessage(ES, rumor.val, x.event.id, x.myPubkey))
             /\ lastOp' = [op |-> "fold", wrapId |-> x.event.id,
                           rumorId |-> rumor.val.id, from |-> "unwrap"]
        ELSE /\ UNCHANGED <<conversations, seenRumorIds, dmCache,
                            reactionStore, lastSeenStore>>
             /\ lastOp' = [op |-> "dropped"]

\* the onEvent callback of a subscription, with the myPubkey and privateKey
\* its closure holds: a cache hit is folded at once; on a miss the wrap is
\* decrypted, with a private key inside the same task (unwrapGiftWrapLocal
\* is synchronous, the await yields to no other task), with a signer after a
\* wait for its answers (UnwrapDone)
onEvent(myPubkey, privateKey, event) ==
    /\ LET cached == getCachedRumor(ES, event.id)
           x == [event |-> event, myPubkey |-> myPubkey,
                 privateKey |-> privateKey, signer |-> activeSigner]
       IN  IF cached.ok
           THEN /\ SetES(addMessage(ES, fakeRumor(cached.val), event.id,
                                    myPubkey))
                /\ inflight' = inflight
                /\ lastOp' = [op |-> "fold", wrapId |-> event.id,
                              rumorId |-> cached.val.id, from |-> "cache"]
           ELSE IF privateKey # NoPrivateKey
           THEN /\ afterUnwrap(x)
                /\ inflight' = inflight
           ELSE /\ inflight' = inflight (+) SetToBag({x})
                /\ UNCHANGED <<conversations, seenRumorIds, dmCache,
                               reactionStore, lastSeenStore>>
                /\ lastOp' = [op |-> "onEvent", wrapId |-> event.id]
    /\ UNCHANGED <<protoVars, chatVars, subscriptionVars, calls, lookups, sessionVars, resolverVars, trackVars, sends, retries>>

\* onEvent of a signer session after "await unwrapGiftWrap" (the signer is
\* the one getSigner() returned when the call started)
UnwrapDone(x) ==
    /\ afterUnwrap(x)
    /\ inflight' = inflight (-) SetToBag({x})
    /\ UNCHANGED <<protoVars, chatVars, subscriptionVars, calls, lookups, sessionVars, resolverVars, trackVars, sends, retries>>

\* ChatView's effect of lines 90-94, run by React in a task of its own after
\* a commit that left the open chat's conversation with unread messages
AutoMarkAsRead ==
    /\ user # NoUser
    /\ chat # 0
    /\ LET conversationId == getConversationId(user.pubkey, <<chat>>)
       IN  /\ Has(conversations, conversationId)
           /\ conversations[conversationId].unreadCount > 0
           /\ SetES(markAsRead(ES, conversationId, clock))
           /\ lastOp' = [op |-> "markAsRead",
                         conversationId |-> conversationId,
                         unreadBefore |-> UnreadOf(conversations,
                                                   conversationId)]
    /\ UNCHANGED <<protoVars, chatVars, subscriptionVars, calls, lookups, sessionVars, inflight, resolverVars, trackVars, sends, retries>>

\* DMProvider.markAsRead(conversationId)
MarkAsRead(conversationId) ==
    /\ SetES(markAsRead(ES, conversationId, clock))
    /\ lastOp' = [op |-> "markAsRead", conversationId |-> conversationId,
                  unreadBefore |-> UnreadOf(conversations, conversationId)]
    /\ UNCHANGED <<protoVars, chatVars, subscriptionVars, calls, lookups, sessionVars, inflight, resolverVars, trackVars, sends, retries>>

\* DMProvider.markAllAsRead()
MarkAllAsRead ==
    /\ SetES(markAllAsRead(ES, clock))
    /\ lastOp' = [op |-> "markAllAsRead", now |-> clock]
    /\ UNCHANGED <<protoVars, chatVars, subscriptionVars, calls, lookups, sessionVars, inflight, resolverVars, trackVars, sends, retries>>

\* a second passes
Tick ==
    /\ clock < MaxClock
    /\ clock' = clock + 1
    /\ lastOp' = [op |-> "tick"]
    /\ UNCHANGED <<protoVars, chatVars, subscriptionVars, calls, lookups, user, activeSigner, ephCount, engineVars, resolverVars, trackVars, sends, retries>>

(***************************************************************************)
(* Session changes (the subscription effect of DMProvider, lines 260-320)  *)
(*   A subscription handle is [id, myPubkey, privateKey]: the values its   *)
(*   onEvent closure holds.                                                *)
(***************************************************************************)
\* startSubscription calls of one run
MaxStarts == 2

\* handle.unsubscribe() through subRef.current?.unsubscribe()
Unsubscribe(live, ref) == {h \in live : h.id # ref}

\* the cleanup the effect returned for a logged-in user
EffectCleanup(st) == [st EXCEPT !.subs = Unsubscribe(st.subs, st.subRef),
                                !.subRef = 0]

\* startSubscription() of the effect run for user u: on a memory hit of the
\* relay lookup the subscription is made at once, otherwise the call waits
\* for the network in "starting"
startSubscription(st, u) ==
    LET handle == [id |-> st.subCount + 1, myPubkey |-> u.pubkey,
                   privateKey |-> u.privateKey]
        lookup == fetchInboxRelaysStart(st.rs, u.pubkey, FALSE)
    IN  IF lookup.done
        THEN [st EXCEPT !.subs = @ \cup {handle}, !.subRef = handle.id,
                        !.subCount = @ + 1, !.rs = lookup.rs]
        ELSE [st EXCEPT !.starting = @ \cup {handle}, !.subCount = @ + 1,
                        !.rs = lookup.rs]

SubState ==
    [subs |-> subs, subRef |-> subRef, starting |-> starting,
     subCount |-> subCount, rs |-> RS]

SetSubState(st) ==
    /\ subs' = st.subs
    /\ subRef' = st.subRef
    /\ starting' = st.starting
    /\ subCount' = st.subCount
    /\ SetRS(st.rs)

\* the effects that run after a commit with a new user u, the children's
\* first: the prefetch of ChatView, then startSubscription of DMProvider
UserEffects(st, waiting, u, c) ==
    LET pre == prefetch(st.rs, waiting, u, c)
    IN  IF u = NoUser THEN [sub |-> st, lookups |-> waiting]
        ELSE [sub |-> startSubscription([st EXCEPT !.rs = pre.rs], u),
              lookups |-> pre.lookups]

\* user: null -> u.  No cleanup runs (the effect run for null returned none).
Login(u) ==
    /\ user = NoUser
    /\ subCount < MaxStarts
    /\ user' = u
    /\ activeSigner' = Signer(u.pubkey, TRUE, TRUE)
    /\ LET eff == UserEffects(SubState, lookups, u, chat)
       IN  /\ SetSubState(eff.sub)
           /\ lookups' = eff.lookups
    /\ SetES(ChatViewEffect(ES, u, chat, clock))
    /\ lastOp' = [op |-> "login"]
    /\ UNCHANGED <<protoVars, chatVars, clock, ephCount, inflight, calls, trackVars, sends, retries>>

\* a plausible slip: the teardown removes the read state too
Logout_forgetsReadState ==
    /\ user # NoUser
    /\ user' = NoUser
    /\ activeSigner' = Signer(0, TRUE, TRUE)
    /\ LET st == EffectCleanup(SubState)
       IN  SetSubState([st EXCEPT !.subs = Unsubscribe(st.subs, st.subRef),
                                  !.subRef = 0])
    /\ conversations' = <<>>
    /\ seenRumorIds' = {}
    /\ lastSeenStore' = <<>>
    /\ lastOp' = [op |-> "logout"]
    /\ UNCHANGED <<protoVars, chatVars, lookups, clock, ephCount, dmCache, reactionStore, inflight, calls, trackVars, sends, retries>>

\* user: u -> null.  The cleanup of the old effect run, then the !user branch.
Logout ==
    /\ user # NoUser
    /\ user' = NoUser
    /\ activeSigner' = Signer(0, TRUE, TRUE)
    /\ LET st == EffectCleanup(SubState)
       IN  SetSubState([st EXCEPT !.subs = Unsubscribe(st.subs, st.subRef),
                                  !.subRef = 0])
    /\ conversations' = <<>>
    /\ seenRumorIds' = {}
    /\ lastOp' = [op |-> "logout"]
    /\ UNCHANGED <<protoVars, chatVars, lookups, clock, ephCount, dmCache, reactionStore, lastSeenStore, inflight, calls, trackVars, sends, retries>>

\* user: u -> v, another user object (another account, the same pubkey with
\* another way of signing, or a new object with the same fields).  The
\* cleanup of the old effect run, then startSubscription for v; the
\* conversations stay.  The prefetch of ChatView runs again when the pubkey
\* changed.
SwitchUser(u) ==
    /\ user # NoUser
    /\ u # NoUser
    /\ subCount < MaxStarts
    /\ user' = u
    /\ activeSigner' = Signer(u.pubkey, TRUE, TRUE)
    /\ LET eff == UserEffects(EffectCleanup(SubState), lookups, u,
                              IF u.pubkey = user.pubkey THEN 0 ELSE chat)
       IN  /\ SetSubState(eff.sub)
           /\ lookups' = eff.lookups
    /\ SetES(ChatViewEffect(ES, u, chat, clock))
    /\ lastOp' = [op |-> "switchUser"]
    /\ UNCHANGED <<protoVars, chatVars, clock, ephCount, inflight, calls, trackVars, sends, retries>>

\* the route changes to /messages/<npub of c>: ChatView mounts with fresh
\* state and its effects run
OpenChat(c) ==
    /\ chat = 0
    /\ chat' = c
    /\ replyTo' = <<>>
    /\ sendStatuses' = <<>>
    /\ LET pre == prefetch(RS, lookups, user, c)
       IN  /\ SetRS(pre.rs)
           /\ lookups' = pre.lookups
    /\ SetES(ChatViewEffect(ES, user, c, clock))
    /\ lastOp' = [op |-> "openChat"]
    /\ UNCHANGED <<protoVars, sessionVars, inflight, subscriptionVars, calls, pubs, races, sends, retries>>

\* the back button or a profile link of the top bar (lines 212, 218-227):
\* the route changes and ChatView unmounts.  Its state (replyTo,
\* sendStatuses) is gone; the send calls past an await, the publish
\* promises and the timers go on and their callbacks set the state of a
\* view that is no longer there.  DMProvider stays mounted.
LeaveChat ==
    /\ chat # 0
    /\ chat' = 0
    /\ replyTo' = <<>>
    /\ sendStatuses' = <<>>
    /\ races' = [j \in 1..Len(races) |-> [races[j] EXCEPT !.mounted = FALSE]]
    /\ calls' = {[call EXCEPT !.mounted = FALSE] : call \in calls}
    /\ lastOp' = [op |-> "leaveChat"]
    /\ UNCHANGED <<protoVars, sessionVars, engineVars, subscriptionVars, resolverVars, lookups, pubs, sends, retries>>

\* nothing in memory, localStorage holding the relay lists of store
FreshSub(store) ==
    [subs |-> {}, subRef |-> 0, starting |-> {}, subCount |-> 0,
     rs |-> [cache |-> <<>>, store |-> store, refreshes |-> {}]]

\* the state after the first commit of the page for user u with the chat
\* with c open (c = 0: another page): nothing in memory, then the effects
Mounted(u, c) ==
    LET eff == UserEffects(FreshSub(relayStore), EmptyBag, u, c)
    IN  /\ conversations = <<>>
        /\ seenRumorIds = {}
        /\ inflight = EmptyBag
        /\ calls = {}
        /\ chat = c
        /\ replyTo = <<>>
        /\ subs = eff.sub.subs
        /\ subRef = eff.sub.subRef
        /\ starting = eff.sub.starting
        /\ subCount = eff.sub.subCount
        /\ inboxRelayCache = eff.sub.rs.cache
        /\ refreshes = eff.sub.rs.refreshes
        /\ lookups = eff.lookups

\* startSubscription after "await fetchInboxRelays(myPubkey)": subscribe and
\* store the handle
StartResolves(handle, net) ==
    /\ handle \in starting
    /\ SetRS(fetchRelaysFromNetwork(RS, handle.myPubkey, 0, FALSE, net).rs)
    /\ subs' = subs \cup {handle}
    /\ subRef' = handle.id
    /\ starting' = starting \ {handle}
    /\ lastOp' = [op |-> "subscribe", id |-> handle.id]
    /\ UNCHANGED <<protoVars, chatVars, lookups, sessionVars, engineVars, subCount, calls, trackVars, sends, retries>>

\* a relay delivers an event matching the filter of a live subscription
Deliver(handle, event) ==
    /\ handle \in subs
    /\ <<"p", handle.myPubkey>> \in Range(event.tags)
    /\ onEvent(handle.myPubkey, handle.privateKey, event)

(***************************************************************************)
(* The send path as the event loop runs it: a call advances from one await *)
(* to the next in one step (ChatView.handleSend / handleReaction,          *)
(* DMProvider.sendMessage / sendReaction, nip17.ts wrapAndSendDM /         *)
(* wrapAndSendReaction / createGiftWrapForSigner / publishInboxRelays).    *)
(* An await of a value that is already there (getSigner, getPublicKey, a   *)
(* relay list in memory, the signer of a private-key session) yields to no *)
(* other task.                                                             *)
(***************************************************************************)
\* what no step of the send path changes
sendFrame == <<protoVars, subscriptionVars, lookups, user, activeSigner, clock, inflight, retries, chat>>

\* what a step of the send path assigns
SendStep(newCalls, eph, es, ts, reply, op) ==
    /\ calls' = newCalls
    /\ ephCount' = eph
    /\ SetES(es)
    /\ SetTS(ts)
    /\ replyTo' = reply
    /\ lastOp' = op

AllSettled(waiting) == \A p \in waiting : pubs[p].state # "pending"

\* the call stands at an await
CallWaits(olds, call, eph) ==
    SendStep((calls \ olds) \cup {call}, eph, ES, TS, replyTo,
             [op |-> "await", call |-> call.id, stage |-> call.stage])

\* the call throws: sendMessage and handleSend throw with it, handleReaction
\* catches and logs
CallThrows(olds, call) ==
    SendStep(calls \ olds, ephCount, ES, TS, replyTo,
             [op |-> IF call.kind = "dm" THEN "handleSend"
                     ELSE IF call.kind = "reaction" THEN "sendReaction"
                     ELSE "publishInboxRelays",
              ok |-> FALSE,
              rumorId |-> IF call.kind = "relayList" THEN <<>>
                          ELSE call.rumor.val.id])

\* a plausible slip: the echo is stored under the id of the sender's wrap
SendReturns_echoUnderWrapId(olds, call, eph) ==
    LET res == SendResult(call, call.wraps, Len(pubs))
    IN  SendStep(calls \ olds, eph,
                 addMessage(ES, res.rumor, call.wraps[2].id, call.myPubkey),
                 trackRelays([TS EXCEPT !.pubs = @ \o res.issued],
                             [rumorId |-> res.rumor.id,
                              publishes |-> res.publishes,
                              retryWraps |-> res.retryWraps],
                             call.mounted),
                 IF call.mounted THEN <<>> ELSE replyTo,
                 [op |-> "handleSend", ok |-> TRUE, rumorId |-> res.rumor.id,
                  recipient |-> call.recipientPubkey, base |-> Len(pubs)])

\* wrapAndSendDM from its publish loop to its return, then the rest of
\* sendMessage (the local echo under the user of its closure) and of
\* handleSend (setReplyTo(null), trackRelays), which set the state of the
\* view that made the call
SendReturns(olds, call, eph) ==
    LET res == SendResult(call, call.wraps, Len(pubs))
    IN  SendStep(calls \ olds, eph,
                 addMessage(ES, res.rumor, <<"local", res.rumor.id>>,
                            call.myPubkey),
                 trackRelays([TS EXCEPT !.pubs = @ \o res.issued],
                             [rumorId |-> res.rumor.id,
                              publishes |-> res.publishes,
                              retryWraps |-> res.retryWraps],
                             call.mounted),
                 IF call.mounted THEN <<>> ELSE replyTo,
                 [op |-> "handleSend", ok |-> TRUE, rumorId |-> res.rumor.id,
                  recipient |-> call.recipientPubkey, base |-> Len(pubs)])

\* wrapAndSendReaction publishes wrap k to the relays of its reader and
\* stands at "await Promise.allSettled"
PublishWrap(olds, call, k, eph) ==
    LET issued == pool_publish(IF k = 1 THEN recipientRelays(call)
                               ELSE senderRelays(call),
                               call.wraps[k])
    IN  SendStep((calls \ olds) \cup
                    {[call EXCEPT !.stage = "settle", !.sent = k,
                                  !.waiting = (Len(pubs) + 1)
                                              ..(Len(pubs) + Len(issued))]},
                 eph, ES, [TS EXCEPT !.pubs = @ \o issued], replyTo,
                 [op |-> "reactionPublish", wrap |-> k,
                  rumorId |-> call.rumor.val.id])

\* a send call once both relay lists are there: createRumor, then the
\* private-key path builds both wraps at once, the signer path starts
\* createGiftWrapForSigner for the recipient's wrap.  offs = the offsets the
\* four randomTimestamp() calls of the private-key path draw.
AfterLookups(olds, call0, offs) ==
    LET rumor == callRumor(call0, clock)
        call == [call0 EXCEPT !.rumor = Ok(rumor)]
    IN  IF call.privateKey # NoPrivateKey
        THEN LET built == [call EXCEPT !.wraps = localWraps(call, rumor,
                             <<RandomDraw(ephCount + 1, clock, offs[1], offs[2]),
                               RandomDraw(ephCount + 2, clock, offs[3], offs[4])>>)]
             IN  IF call.kind = "dm"
                 THEN SendReturns(olds, built, ephCount + 2)
                 ELSE PublishWrap(olds, built, 1, ephCount + 2)
        ELSE IF ~call.signer.nip44Encrypt
        THEN CallThrows(olds, call)
        ELSE CallWaits(olds, [call EXCEPT !.stage = "encrypt"], ephCount)

\* ChatView.handleSend(content) -> DMProvider.sendMessage(recipientPubkey,
\* content, replyTo?.id) -> wrapAndSendDM, up to its first await that waits
HandleSend(content, offs) ==
    /\ user # NoUser
    /\ chat # 0
    /\ LET s == startLookups(RS, NewCall(sends + 1, "dm", chat, content, replyTo,
                                         <<>>, user, activeSigner))
       IN  /\ SetRS(s.rs)
           /\ IF s.call.recipientInbox.ok /\ s.call.senderInbox.ok
              THEN AfterLookups({}, s.call, offs)
              ELSE CallWaits({}, s.call, ephCount)
    /\ sends' = sends + 1
    /\ UNCHANGED sendFrame

\* ChatView.handleReaction(messageId, emoji) -> DMProvider.sendReaction ->
\* wrapAndSendReaction, up to its first await that waits
SendReaction(emoji, messageId, offs) ==
    /\ user # NoUser
    /\ chat # 0
    /\ LET s == startLookups(RS, NewCall(sends + 1, "reaction", chat, emoji, <<>>,
                                         <<<<"e", messageId>>>>, user,
                                         activeSigner))
       IN  /\ SetRS(s.rs)
           /\ IF s.call.recipientInbox.ok /\ s.call.senderInbox.ok
              THEN AfterLookups({}, s.call, offs)
              ELSE CallWaits({}, s.call, ephCount)
    /\ sends' = sends + 1
    /\ UNCHANGED sendFrame

\* the network answers the relay lookup of a waiting send call for one side
\* ("recipient": fetchInboxRelays(recipientPubkey), "sender":
\* fetchInboxRelays(senderPubkey, true)); with both lists there the call
\* goes on
CallLookupAnswers(call, side, net, offs) ==
    /\ call \in calls
    /\ call.stage = "lookups"
    /\ (IF side = "recipient" THEN call.recipientInbox ELSE call.senderInbox) = Null
    /\ LET r == IF side = "recipient"
                THEN fetchRelaysFromNetwork(RS, call.recipientPubkey, 0, FALSE, net)
                ELSE fetchRelaysFromNetwork(RS, call.senderPubkey, 0, TRUE, net)
           answered == IF side = "recipient"
                       THEN [call EXCEPT !.recipientInbox = Ok(r.relays)]
                       ELSE [call EXCEPT !.senderInbox = Ok(r.relays)]
       IN  /\ SetRS(r.rs)
           /\ IF answered.recipientInbox.ok /\ answered.senderInbox.ok
              THEN AfterLookups({call}, answered, offs)
              ELSE CallWaits({call}, answered, ephCount)
    /\ UNCHANGED <<sendFrame, sends>>

\* the signer answers nip44Encrypt of createGiftWrapForSigner: the seal is
\* stamped with randomTimestamp() (offset off) and handed to signEvent
SignerEncrypts(call, off) ==
    /\ call \in calls
    /\ call.stage = "encrypt"
    /\ CallWaits({call}, [call EXCEPT !.stage = "sign",
                                      !.sealTs = randomTimestamp(clock, off)],
                 ephCount)
    /\ UNCHANGED <<sendFrame, resolverVars, sends>>

\* the signer answers signEvent.  createGiftWrapForSigner draws the
\* ephemeral key and the created_at of the wrap (offset off) and returns;
\* a DM goes on to its second wrap or to its publish loop, a reaction
\* publishes the wrap.  publishInboxRelays publishes the signed event to the
\* default relays and keeps no promise.
SignerSigns(call, off) ==
    /\ call \in calls
    /\ call.stage = "sign"
    /\ IF call.kind = "relayList"
       THEN SendStep(calls \ {call}, ephCount, ES,
                     [TS EXCEPT !.pubs = @ \o pool_publish(defaultRelays,
                                   signer_signEvent(call.signer, call.rumor.val))],
                     replyTo,
                     [op |-> "publishInboxRelays", ok |-> TRUE])
       ELSE LET k == Len(call.wraps) + 1
                wrap == createGiftWrapForSigner(
                            call.signer, call.rumor.val, WrapRecipient(call, k),
                            [ephemeralKey |-> generateSecretKey(ephCount + 1),
                             sealTs |-> call.sealTs,
                             wrapTs |-> randomTimestamp(clock, off)]).val
                built == [call EXCEPT !.wraps = Append(@, wrap)]
            IN  IF call.kind = "reaction"
                THEN PublishWrap({call}, built, k, ephCount + 1)
                ELSE IF k = 1
                THEN CallWaits({call}, [built EXCEPT !.stage = "encrypt"],
                               ephCount + 1)
                ELSE SendReturns({call}, built, ephCount + 1)
    /\ UNCHANGED <<sendFrame, resolverVars, sends>>

\* the signer rejects the request the call waits for (the user declines, the
\* remote signer is gone): the call throws
SignerRejects(call) ==
    /\ call \in calls
    /\ call.stage \in {"encrypt", "sign"}
    /\ CallThrows({call}, call)
    /\ UNCHANGED <<sendFrame, resolverVars, sends>>

\* wrapAndSendReaction resumes after the first allSettled: the private-key
\* path publishes the sender's wrap it built before, the signer path starts
\* createGiftWrapForSigner for it
ReactionPublishesSender(call) ==
    /\ call \in calls
    /\ call.stage = "settle"
    /\ call.sent = 1
    /\ AllSettled(call.waiting)
    /\ IF call.privateKey # NoPrivateKey
       THEN PublishWrap({call}, call, 2, ephCount)
       ELSE CallWaits({call}, [call EXCEPT !.stage = "encrypt", !.waiting = {}],
                      ephCount)
    /\ UNCHANGED <<sendFrame, resolverVars, sends>>

\* wrapAndSendReaction returns after the second allSettled; sendReaction adds
\* the local echo under the user of its closure
ReactionReturns(call) ==
    /\ call \in calls
    /\ call.stage = "settle"
    /\ call.sent = 2
    /\ AllSettled(call.waiting)
    /\ SendStep(calls \ {call}, ephCount,
                addMessage(ES, call.rumor.val,
                           <<"local_reaction", call.rumor.val.id>>,
                           call.myPubkey),
                TS, replyTo,
                [op |-> "reactionEcho", rumorId |-> call.rumor.val.id])
    /\ UNCHANGED <<sendFrame, resolverVars, sends>>

\* publishInboxRelays(relays): the kind-10050 event is stamped, signed by
\* the signer and published to the default relays.  Neither the cache nor
\* localStorage is touched and the promises are dropped.
PublishInboxRelays(relays) ==
    /\ user # NoUser
    /\ LET template == relayListTemplate(relays, clock)
           call == [NewCall(sends + 1, "relayList", 0, "", <<>>, <<>>, user,
                            activeSigner)
                       EXCEPT !.rumor = Ok(template), !.stage = "sign"]
       IN  IF user.privateKey # NoPrivateKey
           THEN SendStep(calls, ephCount, ES,
                         [TS EXCEPT !.pubs = @ \o pool_publish(defaultRelays,
                                       signer_signEvent(activeSigner, template))],
                         replyTo,
                         [op |-> "publishInboxRelays", ok |-> TRUE])
           ELSE CallWaits({}, call, ephCount)
    /\ sends' = sends + 1
    /\ UNCHANGED <<sendFrame, resolverVars>>

\* ChatView: a swipe or the reply button sets replyTo to a message shown
SetReplyTo(messageId) ==
    /\ chat # 0
    /\ replyTo' = messageId
    /\ lastOp' = [op |-> "setReplyTo"]
    /\ UNCHANGED <<protoVars, sessionVars, engineVars, subscriptionVars, calls, resolverVars, lookups, trackVars, chat, sends, retries>>

\* the one DM of the run, the four randomTimestamp() calls of the
\* private-key path drawing a tuple of jitters
SendOne(jitters) ==
    \E offs \in jitters :
       /\ sends = 0
       /\ HandleSend("hi", offs)

\* the network answers a kind-10050 lookup of a waiting send call: the
\* recipient's with the first, the sender's with the second answer of a pair
Answer(answers, jitters) ==
    \E call \in calls : \E net \in answers : \E offs \in jitters :
       \/ CallLookupAnswers(call, "recipient", net[1], offs)
       \/ CallLookupAnswers(call, "sender", net[2], offs)

\* the signer answers a request of a waiting call, randomTimestamp()
\* drawing one of the offsets
Sign(offsets) ==
    \E call \in calls : \E off \in offsets :
       \/ SignerEncrypts(call, off)
       \/ SignerSigns(call, off)

(***************************************************************************)
(* Protocol harness: one wrap built for pIn.recipient from a rumor of      *)
(* pIn.author sealed with the key of pIn.sealer, then unwrapped by         *)
(* pIn.reader.  author # sealer is the crafted seal of an attacker.        *)
(***************************************************************************)
nonProtoVars == <<sessionVars, engineVars, subscriptionVars, calls, resolverVars, lookups, trackVars, chatVars, countVars>>

Backends == {"local", "signer"}

ProtoInputs ==
    [author : Users, sealer : Users, recipient : Users, reader : Users,
     build : Backends, read : Backends, content : Contents,
     kind : {KindDM, KindReaction},
     now : 1..MaxClock, sealOffset : 0..MaxJitter, wrapOffset : 0..MaxJitter]

ProtoRumor(in) ==
    createRumor(in.author, in.recipient, in.content, <<>>, in.kind,
                IF in.kind = KindReaction
                THEN <<<<"e", computeRumorId([pubkey |-> in.recipient,
                                              created_at |-> 0, kind |-> KindDM,
                                              tags |-> <<>>, content |-> "hi"])>>>>
                ELSE <<>>,
                in.now)

ProtoDraw(in) == RandomDraw(1, in.now, in.sealOffset, in.wrapOffset)

\* the builder is called in the second the rumor was made in
ProtoInit ==
    /\ pIn \in ProtoInputs
    /\ pWrap = Null
    /\ pOut = Null
    /\ pPc = "input"
    /\ user = NoUser
    /\ activeSigner = Signer(0, TRUE, TRUE)
    /\ clock = pIn.now
    /\ ephCount = 0
    /\ StorageEmpty
    /\ Mounted(user, 0)
    /\ TrackEmpty
    /\ CountsZero

BuildLocal ==
    /\ pPc = "input"
    /\ pIn.build = "local"
    /\ pWrap' = Ok(createGiftWrapLocal(
                       hexToBytes(SecretKey(pIn.sealer)), ProtoRumor(pIn),
                       pIn.recipient, ProtoDraw(pIn)))
    /\ pPc' = "wrapped"
    /\ UNCHANGED <<pIn, pOut, nonProtoVars>>

\* createGiftWrapForSigner up to "await signer.nip44Encrypt" (line 259)
BuildForSigner ==
    /\ pPc = "input"
    /\ pIn.build = "signer"
    /\ pPc' = "encrypt"
    /\ UNCHANGED <<pIn, pWrap, pOut, nonProtoVars>>

\* the signer answers nip44Encrypt: the seal template is stamped with
\* randomTimestamp() of that moment (line 264) and handed to signEvent
\* (line 268); pWrap holds the created_at of the seal meanwhile
BuildEncrypted ==
    /\ pPc = "encrypt"
    /\ pWrap' = [ok |-> FALSE,
                 sealTs |-> randomTimestamp(clock, pIn.sealOffset)]
    /\ pPc' = "sign"
    /\ UNCHANGED <<pIn, pOut, nonProtoVars>>

\* the signer answers signEvent: the wrap is stamped with randomTimestamp()
\* of that moment (line 283) and signed with the ephemeral key
BuildSigned ==
    /\ pPc = "sign"
    /\ pWrap' = createGiftWrapForSigner(
                    Signer(pIn.sealer, TRUE, TRUE), ProtoRumor(pIn),
                    pIn.recipient,
                    [ephemeralKey |-> generateSecretKey(1),
                     sealTs |-> pWrap.sealTs,
                     wrapTs |-> randomTimestamp(clock, pIn.wrapOffset)])
    /\ pPc' = "wrapped"
    /\ UNCHANGED <<pIn, pOut, nonProtoVars>>

Unwrap ==
    /\ pPc = "wrapped"
    /\ pWrap.ok
    /\ pOut' = unwrapGiftWrap(
                   pWrap.val,
                   IF pIn.read = "local" THEN SecretKey(pIn.reader)
                                         ELSE NoPrivateKey,
                   Signer(pIn.reader, TRUE, TRUE))
    /\ pPc' = "done"
    /\ UNCHANGED <<pIn, pWrap, nonProtoVars>>

ProtoNext ==
    \/ BuildLocal
    \/ BuildForSigner
    \/ BuildEncrypted
    \/ BuildSigned
    \* time passes while the builder waits for the signer
    \/ /\ pPc \in {"encrypt", "sign"}
       /\ Tick
    \/ Unwrap

SpecProto == ProtoInit /\ [][ProtoNext]_vars

(***************************************************************************)
(* Unwrap harness: a wrap built by pIn.sealer for pIn.recipient, damaged   *)
(* at one layer by its builder (pIn.fault), then unwrapped by pIn.reader   *)
(* through the local key or through a signer that may lack nip44Decrypt    *)
(***************************************************************************)
Faults ==
    {"none", "wrapPayload", "sealNotJson", "sealNull", "sealPayload",
     "rumorNotJson", "rumorNull"}

UnwrapInputs ==
    [author : Users, sealer : Users, recipient : Users, reader : Users,
     read : Backends, canDecrypt : BOOLEAN, fault : Faults]

\* the wrap re-encrypted by its builder around a damaged seal or rumor
Damage(wrap, fault) ==
    LET wrapKey == wrap.content.key
        seal == wrap.content.plain.value
        sealKey == seal.content.key
        reseal(c) == nip44_encrypt(JSON_stringify([seal EXCEPT !.content = c]),
                                   wrapKey)
    IN  CASE fault = "none" -> wrap
          [] fault = "wrapPayload" -> [wrap EXCEPT !.content = NotPayload]
          [] fault = "sealNotJson" ->
                [wrap EXCEPT !.content = nip44_encrypt(NotJson, wrapKey)]
          [] fault = "sealNull" ->
                [wrap EXCEPT !.content =
                     nip44_encrypt(JSON_stringify(JsonNull), wrapKey)]
          [] fault = "sealPayload" ->
                [wrap EXCEPT !.content = reseal(NotPayload)]
          [] fault = "rumorNotJson" ->
                [wrap EXCEPT !.content = reseal(nip44_encrypt(NotJson, sealKey))]
          [] fault = "rumorNull" ->
                [wrap EXCEPT !.content =
                     reseal(nip44_encrypt(JSON_stringify(JsonNull), sealKey))]

UnwrapInit ==
    /\ pIn \in UnwrapInputs
    /\ pWrap = Null
    /\ pOut = Null
    /\ pPc = "input"
    /\ SessionOf(NoUser)
    /\ StorageEmpty
    /\ Mounted(user, 0)
    /\ TrackEmpty
    /\ CountsZero

CraftWrap ==
    /\ pPc = "input"
    /\ pWrap' = Ok(Damage(
                       createGiftWrapLocal(
                           hexToBytes(SecretKey(pIn.sealer)),
                           createRumor(pIn.author, pIn.recipient, "hi", <<>>,
                                       KindDM, <<>>, 1),
                           pIn.recipient, RandomDraw(1, 1, 0, 0)),
                       pIn.fault))
    /\ pPc' = "wrapped"
    /\ UNCHANGED <<pIn, pOut, nonProtoVars>>

UnwrapCrafted ==
    /\ pPc = "wrapped"
    /\ pOut' = unwrapGiftWrap(
                   pWrap.val,
                   IF pIn.read = "local" THEN SecretKey(pIn.reader)
                                         ELSE NoPrivateKey,
                   Signer(pIn.reader, TRUE, pIn.canDecrypt))
    /\ pPc' = "done"
    /\ UNCHANGED <<pIn, pWrap, nonProtoVars>>

UnwrapNext == CraftWrap \/ UnwrapCrafted

SpecUnwrap == UnwrapInit /\ [][UnwrapNext]_vars

(***************************************************************************)
(* Conversation ids: getConversationId applied to two drawn participant    *)
(* lists (a pubkey and p-tags in any order, with repetitions)              *)
(***************************************************************************)
\* p-tags of one rumor
MaxTags == 2

\* pubkeys whose texts differ in the first digit, in the second, or swap them
IdKeys == {11, 22, 27, 176}

TagLists == UNION {[1..n -> IdKeys] : n \in 0..MaxTags}

ConvIdInputs ==
    [a : [myPubkey : IdKeys, pTags : TagLists],
     b : [myPubkey : IdKeys, pTags : TagLists]]

ConvIdInit ==
    /\ pIn \in ConvIdInputs
    /\ pWrap = Null
    /\ pOut = Null
    /\ pPc = "input"
    /\ SessionOf(NoUser)
    /\ StorageEmpty
    /\ Mounted(user, 0)
    /\ TrackEmpty
    /\ CountsZero

ComputeIds ==
    /\ pPc = "input"
    /\ pOut' = [a |-> getConversationId(pIn.a.myPubkey, pIn.a.pTags),
                b |-> getConversationId(pIn.b.myPubkey, pIn.b.pTags)]
    /\ pPc' = "done"
    /\ UNCHANGED <<pIn, pWrap, nonProtoVars>>

SpecConvId == ConvIdInit /\ [][ComputeIds]_vars

(***************************************************************************)
(* Reconciliation engine: the session of Alice, the relays delivering      *)
(* wire events in any order and any number of times                        *)
(***************************************************************************)
\* onEvent calls that may wait for their decryption at the same time
MaxInflight == 2
SessionUsers == {LocalUser(Alice), SignerUser(Alice)}

NoJitter == <<0, 0, 0, 0>>

EngineInit ==
    /\ ProtoIdle
    /\ \E u \in SessionUsers : SessionOf(u)
    /\ StorageEmpty
    /\ Mounted(user, 0)
    /\ TrackEmpty
    /\ CountsZero

EngineNext ==
    \/ \E handle \in starting : StartResolves(handle, NetNone)
    \/ \E handle \in subs : \E event \in Range(WireEvents) :
          /\ getCachedRumor(ES, event.id).ok
             \/ BagCardinality(inflight) < MaxInflight
          /\ Deliver(handle, event)
    \/ \E x \in BagToSet(inflight) : UnwrapDone(x)
    \/ \E conversationId \in DOMAIN conversations : MarkAsRead(conversationId)
    \/ Tick

SpecEngine == EngineInit /\ [][EngineNext]_vars

(***************************************************************************)
(* Sessions: logins, logouts and user changes on one device, the           *)
(* subscriptions they start and stop, the DM of a peer delivered in any    *)
(* order and any number of times                                           *)
(***************************************************************************)
Accounts == {LocalUser(Alice), SignerUser(Alice), LocalUser(Bob)}

SessionInit ==
    /\ ProtoIdle
    /\ SessionOf(NoUser)
    /\ StorageEmpty
    /\ Mounted(user, 0)
    /\ TrackEmpty
    /\ CountsZero

SessionNext ==
    \/ \E u \in Accounts : Login(u)
    \/ Logout
    \/ \E u \in Accounts : SwitchUser(u)
    \/ \E handle \in starting : StartResolves(handle, NetNone)
    \/ \E handle \in subs : \E event \in {WireEvents[1], WireEvents[3]} :
          /\ getCachedRumor(ES, event.id).ok
             \/ BagCardinality(inflight) < MaxInflight
          /\ Deliver(handle, event)
    \/ \E x \in BagToSet(inflight) : UnwrapDone(x)

SpecSession == SessionInit /\ [][SessionNext]_vars

(***************************************************************************)
(* Reactions: the sessions of Alice on one device, a DM of Bob and two     *)
(* reactions of Bob to it delivered in any order and any number of times,  *)
(* one reaction of Alice, logouts and further logins                       *)
(***************************************************************************)
\* a reaction of Bob to his own DM; two of them with the same emoji are two
\* rumors
PeerReaction(now) ==
    createRumor(Bob, Alice, "+", <<>>, KindReaction,
                <<<<"e", PeerRumor.id>>>>, now)

ReactionWire ==
    << createGiftWrapLocal(SecretKey(Bob), PeerRumor, Alice, PeerDraw(1)),
       createGiftWrapLocal(SecretKey(Bob), PeerReaction(1), Alice, PeerDraw(5)),
       createGiftWrapLocal(SecretKey(Bob), PeerReaction(2), Alice, PeerDraw(6)) >>

\* what the relays hold: the peer's wraps and every wrap this client published
OnRelays == Range(ReactionWire) \cup {pubs[i].event : i \in 1..Len(pubs)}

\* the account of the device (pIn): every login of the run is a login of it
ReactionInit ==
    /\ pIn \in SessionUsers
    /\ pWrap = Null
    /\ pOut = Null
    /\ pPc = "off"
    /\ SessionOf(NoUser)
    /\ StorageEmpty
    /\ Mounted(user, Bob)
    /\ TrackEmpty
    /\ CountsZero

ReactionNext ==
    \/ Login(pIn)
    \/ Logout
    \/ \E handle \in starting : StartResolves(handle, NetNone)
    \/ \E handle \in subs : \E event \in OnRelays :
          \* one decryption at a time
          /\ getCachedRumor(ES, event.id).ok \/ inflight = EmptyBag
          /\ Deliver(handle, event)
    \/ \E x \in BagToSet(inflight) : UnwrapDone(x)
    \/ \E messageId \in ShownIds :
          /\ sends = 0
          /\ SendReaction("+", messageId, NoJitter)
    \/ Answer({<<NetNone, NetNone>>}, {NoJitter})
    \/ Sign({0})
    \/ \E p \in 1..Len(pubs) : PublishResolves(p)
    \/ \E call \in calls : ReactionPublishesSender(call)
    \/ \E call \in calls : ReactionReturns(call)
    \/ AutoMarkAsRead

SpecReactions == ReactionInit /\ [][ReactionNext]_vars

(***************************************************************************)
(* Publish tracker: one DM sent from the chat view, the relay pool and the *)
(* timers settling in any order                                            *)
(***************************************************************************)
\* clicks on Retry
MaxRetries == 1

\* cold lookups that may wait for the network at the same time; a chat is
\* opened (its prefetch starts two more) while no more than these wait
MaxLookups == 2

TrackInit ==
    /\ ProtoIdle
    /\ \E u \in SessionUsers : SessionOf(u)
    /\ StorageEmpty
    /\ Mounted(user, Bob)
    /\ TrackEmpty
    /\ CountsZero

Settle ==
    \/ \E p \in 1..Len(pubs) : PublishResolves(p)
    \/ \E p \in 1..Len(pubs) : PublishRejects(p)
    \/ \E j \in 1..Len(races) : TimerFires(j)

\* no relay list is found for either side: both relay sets are the default
\* relay
FallbackAnswers == {<<NetNone, NetNone>>, <<NetThrow, NetNone>>}

\* the recipient may have a relay list of its own
MixedAnswers ==
    {<<NetNone, NetNone>>,
     <<NetEvent(<<"wss://inbox.relay/">>, 1), NetNone>>}

InboxAnswers ==
    FallbackAnswers \cup MixedAnswers
    \cup {<<NetNone, NetEvent(<<"wss://home.relay/">>, 1)>>}

SendJitters ==
    {<<a, b, c, d>> : a \in 0..MaxJitter, b \in 0..MaxJitter,
                      c \in 0..MaxJitter, d \in 0..MaxJitter}

\* one send, every answer of the lookups and every draw of the timestamps
SendNext ==
    \/ SendOne(SendJitters)
    \/ Answer(InboxAnswers, SendJitters)
    \/ Sign(0..MaxJitter)
    \/ Settle

SendInit ==
    /\ ProtoIdle
    /\ \E u \in SessionUsers : \E canEncrypt \in BOOLEAN :
          SessionWith(u, canEncrypt)
    /\ StorageEmpty
    /\ Mounted(user, Bob)
    /\ TrackEmpty
    /\ CountsZero

SpecSend == SendInit /\ [][SendNext]_vars

\* Retry as the message bubble offers it: when every relay failed or timed
\* out; the chat may be left at any time
TrackNext ==
    \/ SendOne({NoJitter})
    \/ Answer(FallbackAnswers, {NoJitter})
    \/ Sign({0})
    \/ Settle
    \/ \E rumorId \in DOMAIN sendStatuses :
          /\ retries < MaxRetries
          /\ allFailed(sendStatuses[rumorId])
          /\ HandleRetry(rumorId)
    \/ LeaveChat

SpecTrack == TrackInit /\ [][TrackNext]_vars

\* The tracker with time passing: a timer that is armed fires after
\* SEND_TIMEOUT_MS, whatever the relays do; nothing makes a relay settle a
\* publish and nothing makes the user retry.  The user may leave the chat
\* and open it again at any time.  A send or a retry sets up at most one
\* race per wrap and relay.  Only the events a callback still waits for are
\* followed: a publish settling with no undecided race on it, and the timer
\* of a decided race, run no callback that changes anything (RaceCallback).
RaceBound == 3 * (1 + MaxRetries)

Awaited(p) ==
    \E j \in 1..Len(races) : races[j].promise = p /\ ~races[j].settled

Timeout(j) == j <= Len(races) /\ ~races[j].settled /\ TimerFires(j)

\* the recipient has a relay list of its own, the sender has none: the
\* recipient's relay gets one wrap, the default relay both
LiveAnswers == {<<NetEvent(<<"wss://inbox.relay/">>, 1), NetNone>>}

LiveNext ==
    \/ SendOne({NoJitter})
    \/ Answer(LiveAnswers, {NoJitter})
    \/ Sign({0})
    \/ \E p \in 1..Len(pubs) : Awaited(p) /\ PublishResolves(p)
    \/ \E p \in 1..Len(pubs) : Awaited(p) /\ PublishRejects(p)
    \/ \E j \in 1..Len(races) : Timeout(j)
    \/ \E rumorId \in DOMAIN sendStatuses :
          /\ retries < MaxRetries
          /\ allFailed(sendStatuses[rumorId])
          /\ HandleRetry(rumorId)
    \/ LeaveChat
    \/ /\ BagCardinality(lookups) <= MaxLookups
       /\ OpenChat(Bob)

SpecTrackLive ==
    /\ TrackInit
    /\ [][LiveNext]_vars
    /\ \A j \in 1..RaceBound : WF_vars(Timeout(j))

\* handleRetry as a handler: callable on any record, whatever the bubble shows
RetryNext ==
    \/ SendOne({NoJitter})
    \/ Answer(MixedAnswers, {NoJitter})
    \/ Sign({0})
    \/ Settle
    \/ \E rumorId \in DOMAIN sendStatuses :
          /\ retries < MaxRetries
          /\ HandleRetry(rumorId)

SpecRetry == TrackInit /\ [][RetryNext]_vars

(***************************************************************************)
(* Echo: one DM sent from the open chat with Bob, as a reply or not, while *)
(* the subscription delivers a DM of Bob and the self-copy of the sent DM  *)
(* and time passes between the requests to the signer; the chat may be     *)
(* left at any time                                                        *)
(***************************************************************************)
EchoNext ==
    \/ /\ sends = 0
       /\ \E content \in Contents : HandleSend(content, NoJitter)
    \/ Answer({<<NetNone, NetNone>>}, {NoJitter})
    \/ Sign(0..MaxJitter)
    \/ Tick
    \/ \E messageId \in ShownIds :
          /\ replyTo = <<>>
          /\ sends = 0
          /\ SetReplyTo(messageId)
    \/ \E handle \in starting : StartResolves(handle, NetNone)
    \/ \E handle \in subs : \E event \in {WireEvents[1]} \cup SelfCopies :
          \* one decryption at a time
          /\ getCachedRumor(ES, event.id).ok \/ inflight = EmptyBag
          /\ Deliver(handle, event)
    \/ \E x \in BagToSet(inflight) : UnwrapDone(x)
    \/ AutoMarkAsRead
    \/ LeaveChat

SpecEcho == TrackInit /\ [][EchoNext]_vars

(***************************************************************************)
(* Restarts: the sessions of one account on one device, a thread of three  *)
(* DMs of Bob (two of the same second, one later) delivered in any order   *)
(* and any number of times, the chat being read at any time, logouts and   *)
(* further logins that rebuild the conversation                            *)
(***************************************************************************)
ThreadRumors ==
    << PeerRumor,
       createRumor(Bob, Alice, "yo", <<>>, KindDM, <<>>, 1),
       createRumor(Bob, Alice, "hi", <<>>, KindDM, <<>>, 2) >>

ThreadWire ==
    { createGiftWrapLocal(SecretKey(Bob), ThreadRumors[1], Alice, PeerDraw(1)),
      createGiftWrapLocal(SecretKey(Bob), ThreadRumors[2], Alice, PeerDraw(7)),
      createGiftWrapLocal(SecretKey(Bob), ThreadRumors[3], Alice, PeerDraw(8)) }

\* the account of the device (pIn): every login of the run is a login of it
RestartInit ==
    /\ pIn \in SessionUsers
    /\ pWrap = Null
    /\ pOut = Null
    /\ pPc = "off"
    /\ SessionOf(NoUser)
    /\ StorageEmpty
    /\ Mounted(user, 0)
    /\ TrackEmpty
    /\ CountsZero

RestartNext ==
    \/ Login(pIn)
    \/ Logout
    \/ \E handle \in starting : StartResolves(handle, NetNone)
    \/ \E handle \in subs : \E event \in ThreadWire :
          \* one decryption at a time
          /\ getCachedRumor(ES, event.id).ok \/ inflight = EmptyBag
          /\ Deliver(handle, event)
    \/ \E x \in BagToSet(inflight) : UnwrapDone(x)
    \/ \E conversationId \in DOMAIN conversations : MarkAsRead(conversationId)
    \/ Tick

SpecRestart == RestartInit /\ [][RestartNext]_vars

(***************************************************************************)
(* Reading: the session of Alice with the DMs of two peers (two            *)
(* conversations) arriving in any order, one chat or all chats being       *)
(* marked as read at any time, the chat with Bob being opened and left     *)
(***************************************************************************)
ReadNext ==
    \/ \E handle \in starting : StartResolves(handle, NetNone)
    \/ \E handle \in subs : \E event \in {WireEvents[1], WireEvents[3]} :
          \* one decryption at a time
          /\ getCachedRumor(ES, event.id).ok \/ inflight = EmptyBag
          /\ Deliver(handle, event)
    \/ /\ BagCardinality(lookups) <= MaxLookups
       /\ OpenChat(Bob)
    \/ LeaveChat
    \/ \E x \in BagToSet(inflight) : UnwrapDone(x)
    \/ \E conversationId \in DOMAIN conversations : MarkAsRead(conversationId)
    \/ MarkAllAsRead
    \/ Tick
    \/ AutoMarkAsRead

SpecRead == EngineInit /\ [][ReadNext]_vars

(***************************************************************************)
(* Several sends of one session: DMs and reactions in any order, with the  *)
(* local key or through the signer, the relay pool settling the publishes  *)
(***************************************************************************)
\* sends of one run
MaxSends == 2

WrapsNext ==
    \/ /\ sends < MaxSends
       /\ HandleSend("hi", NoJitter)
    \/ /\ sends < MaxSends
       /\ SendReaction("+", PeerRumor.id, NoJitter)
    \/ Answer({<<NetNone, NetNone>>}, {NoJitter})
    \/ Sign({0})
    \/ \E p \in 1..Len(pubs) : PublishResolves(p)
    \/ \E call \in calls : ReactionPublishesSender(call)
    \/ \E call \in calls : ReactionReturns(call)

SpecWraps == TrackInit /\ [][WrapsNext]_vars

(***************************************************************************)
(* Failing sends: one DM and one reaction of a session whose signer may    *)
(* lack nip44Encrypt or may reject a request (the user declines the        *)
(* prompt, the remote signer does not answer)                              *)
(***************************************************************************)
NoDMSent ==
    /\ DOMAIN sendStatuses = {}
    /\ \A call \in calls : call.kind # "dm"

NoReactionSent ==
    /\ \A call \in calls : call.kind # "reaction"
    /\ \A p \in 1..Len(pubs) :
          pubs[p].event.content.plain.value.content.plain.value.kind
             # KindReaction

FailNext ==
    \/ /\ sends < MaxSends
       /\ NoDMSent
       /\ HandleSend("hi", NoJitter)
    \/ /\ sends < MaxSends
       /\ NoReactionSent
       /\ SendReaction("+", PeerRumor.id, NoJitter)
    \/ Answer({<<NetNone, NetNone>>}, {NoJitter})
    \/ Sign({0})
    \/ \E call \in calls : SignerRejects(call)
    \/ \E p \in 1..Len(pubs) : PublishResolves(p)
    \/ \E p \in 1..Len(pubs) : PublishRejects(p)
    \/ \E call \in calls : ReactionPublishesSender(call)
    \/ \E call \in calls : ReactionReturns(call)

SpecFail == SendInit /\ [][FailNext]_vars

(***************************************************************************)
(* Crafted rumors: the session of Alice, a DM of Bob, a DM of Mallory, a    *)
(* wrap of Mallory around a rumor whose id field is the id of Bob's DM, a  *)
(* wrap for Alice around a rumor that does not name her, and reactions of  *)
(* Bob with an e tag of his making (a sender writes the rumor JSON and may *)
(* put any id and any tags into it)                                        *)
(***************************************************************************)
ForgedRumor ==
    [createRumor(Mallory, Alice, "yo", <<>>, KindDM, <<>>, 1)
        EXCEPT !.id = PeerRumor.id]

\* a DM of Mallory to Bob: Alice is not among its p-tags
ThirdPartyRumor == createRumor(Mallory, Bob, "hi", <<>>, KindDM, <<>>, 2)

\* reactions of Bob whose e tag is written by him: the empty string, and a
\* name of ObjectPrototypeKeys
EmptyTargetReaction ==
    createRumor(Bob, Alice, "+", <<>>, KindReaction, <<<<"e", <<>>>>>>, 1)

ProtoKeyReaction ==
    createRumor(Bob, Alice, "+", <<>>, KindReaction,
                <<<<"e", <<"constructor">>>>>>, 1)

ForgedWire ==
    { WireEvents[1],
      WireEvents[3],
      createGiftWrapLocal(SecretKey(Mallory), ForgedRumor, Alice, PeerDraw(9)),
      \* gift-wrapped for Alice all the same
      createGiftWrapLocal(SecretKey(Mallory), ThirdPartyRumor, Alice,
                          PeerDraw(10)),
      createGiftWrapLocal(SecretKey(Bob), EmptyTargetReaction, Alice,
                          PeerDraw(12)),
      createGiftWrapLocal(SecretKey(Bob), ProtoKeyReaction, Alice,
                          PeerDraw(13)) }

ForgedNext ==
    \/ \E handle \in starting : StartResolves(handle, NetNone)
    \/ \E handle \in subs : \E event \in ForgedWire :
          /\ getCachedRumor(ES, event.id).ok
             \/ BagCardinality(inflight) < MaxInflight
          /\ Deliver(handle, event)
    \/ \E x \in BagToSet(inflight) : UnwrapDone(x)

SpecForged == EngineInit /\ [][ForgedNext]_vars

(***************************************************************************)
(* Relay-list lookups: fetchInboxRelays called by the chat view            *)
(* (recipient; own pubkey with persist), by startSubscription (own pubkey, *)
(* no persist) and by the send path, any number of them in flight at once, *)
(* the network answering each in any order; page reloads in between        *)
(***************************************************************************)
\* the kind-10050 events of a pubkey the relays hold: two older ones of the
\* same second and a newer one
RelayEvents ==
    {NetEvent(<<"wss://inbox.relay/">>, 1),
     NetEvent(<<"wss://other.relay/">>, 1),
     NetEvent(<<"wss://home.relay/">>, 2)}

\* what nostrRuntime.fetchOne can answer: it throws, finds nothing, finds an
\* event without relay tags, finds one of the relay-list events
NetAnswers == {NetThrow, NetNone, NetEvent(<<>>, 1)} \cup RelayEvents

\* the created_at of the event a cached list was taken from (0: the fallback)
SourceAt(relays) ==
    IF \E e \in RelayEvents : TagValues(e.tags, "relay") = relays
    THEN (CHOOSE e \in RelayEvents : TagValues(e.tags, "relay") = relays).created_at
    ELSE 0

\* the calls of the program: persist is passed for the own pubkey only
LookupCalls == {<<Alice, TRUE>>, <<Alice, FALSE>>, <<Bob, FALSE>>}

\* fetchInboxRelays(pubkey, persist) up to its first await
Lookup(pubkey, persist) ==
    /\ LET s == fetchInboxRelaysStart(RS, pubkey, persist)
       IN  /\ SetRS(s.rs)
           /\ lookups' = IF s.done THEN lookups
                         ELSE lookups (+) SetToBag({[pubkey |-> pubkey,
                                                     persist |-> persist]})
           /\ lastOp' = [op |-> "lookup", pubkey |-> pubkey,
                         persist |-> persist, done |-> s.done,
                         relays |-> s.relays]
    /\ UNCHANGED <<protoVars, chatVars, sessionVars, engineVars, subscriptionVars, calls, trackVars, sends, retries>>

\* the network answers a cold lookup: fetchRelaysFromNetwork(pubkey, 0, persist)
\* resumes after "await nostrRuntime.fetchOne"
LookupAnswers(x, net) ==
    /\ LET r == fetchRelaysFromNetwork(RS, x.pubkey, 0, x.persist, net)
       IN  /\ SetRS(r.rs)
           /\ lastOp' = [op |-> "lookupAnswers", pubkey |-> x.pubkey,
                         persist |-> x.persist, net |-> net,
                         relays |-> r.relays]
    /\ lookups' = lookups (-) SetToBag({x})
    /\ UNCHANGED <<protoVars, chatVars, sessionVars, engineVars, subscriptionVars, calls, trackVars, sends, retries>>

\* the network answers a background refresh:
\* fetchRelaysFromNetwork(pubkey, stored.created_at, persist) resumes
RefreshAnswers(x, net) ==
    /\ LET r == fetchRelaysFromNetwork([RS EXCEPT !.refreshes = @ \ {x}],
                                       x.pubkey, x.knownAt, x.persist, net)
       IN  /\ SetRS(r.rs)
           /\ lastOp' = [op |-> "refreshAnswers", pubkey |-> x.pubkey,
                         persist |-> x.persist, knownAt |-> x.knownAt,
                         net |-> net, relays |-> r.relays]
    /\ UNCHANGED <<protoVars, chatVars, sessionVars, engineVars, subscriptionVars, calls, lookups, trackVars, sends, retries>>

\* the page is loaded again with the session restored: nothing is left in
\* memory, the calls in flight and the callbacks of the old page are gone,
\* localStorage is what it was, and the effects of the first commit run
Reload ==
    /\ LET eff == UserEffects(FreshSub(relayStore), EmptyBag, user, chat)
       IN  /\ SetSubState(eff.sub)
           /\ lookups' = eff.lookups
    /\ conversations' = <<>>
    /\ seenRumorIds' = {}
    /\ inflight' = EmptyBag
    /\ calls' = {}
    /\ races' = <<>>
    /\ sendStatuses' = <<>>
    /\ replyTo' = <<>>
    /\ lastOp' = [op |-> "reload"]
    /\ UNCHANGED <<protoVars, sessionVars, dmCache, reactionStore, lastSeenStore, pubs, chat, sends, retries>>

\* a relay list the user may publish
OwnRelays == <<"wss://inbox.relay/">>

ResolverInit ==
    /\ ProtoIdle
    /\ \E u \in SessionUsers : SessionOf(u)
    /\ StorageEmpty
    /\ Mounted(user, 0)
    /\ TrackEmpty
    /\ CountsZero

ResolverNext ==
    \/ \E call \in LookupCalls :
          /\ BagCardinality(lookups) < MaxLookups
          /\ Lookup(call[1], call[2])
    \/ \E x \in BagToSet(lookups) : \E net \in NetAnswers : LookupAnswers(x, net)
    \/ \E x \in refreshes : \E net \in NetAnswers : RefreshAnswers(x, net)
    \/ \E handle \in starting : \E net \in NetAnswers : StartResolves(handle, net)
    \/ /\ sends = 0
       /\ PublishInboxRelays(OwnRelays)
    \/ \E call \in calls : SignerSigns(call, 0)
    \/ \E call \in calls : SignerRejects(call)
    \/ Reload

SpecResolver == ResolverInit /\ [][ResolverNext]_vars

\* what is inside a wrap (read without keys, for stating the claims)
SealInside(wrap) == wrap.content.plain.value
RumorInside(wrap) == SealInside(wrap).content.plain.value

\* C2: unwrapGiftWrap returns null for every wrap whose decrypted seal has a
\* pubkey different from the pubkey of the rumor inside it, on the
\* raw-private-key path and on the delegated-signer path.
C2_MismatchReturnsNull ==
    (pPc = "done"
     /\ SealInside(pWrap.val).pubkey # RumorInside(pWrap.val).pubkey)
    => pOut = Null

\* C3: unwrapping the wrap produced for a recipient, with the recipient's key
\* or signer, returns a rumor equal to the original one (id, pubkey,
\* created_at, kind, tags, content), for createGiftWrapLocal and for
\* createGiftWrapForSigner.  The rumor is one the send path builds: its
\* pubkey is the pubkey of the key that seals it.
C3_RoundTrip ==
    (pPc = "done" /\ pIn.author = pIn.sealer /\ pIn.reader = pIn.recipient)
    => pOut = Ok(ProtoRumor(pIn))

C3_Witness ==
    /\ pPc = "done"
    /\ pIn.author = pIn.sealer
    /\ pIn.reader = pIn.recipient
    /\ pIn.build = "signer"
    /\ pIn.read = "signer"
    /\ pIn.recipient # pIn.author
    /\ pIn.kind = KindReaction
    /\ pOut.ok
    /\ pOut.val.id = computeRumorId(pOut.val)

\* C1: every conversation's message list holds at most one message per rumor
\* id, whatever events were delivered: the same wrap twice, or two different
\* wraps (or the local echo and the self-copy wrap) carrying the same rumor.
C1_OneMessagePerRumor ==
    \A c \in DOMAIN conversations :
        \A i, j \in 1..Len(conversations[c].messages) :
            conversations[c].messages[i].id = conversations[c].messages[j].id
            => i = j

\* the last fold was of a wrap whose rumor the conversation already held
\* under another wrap id
C1_Witness ==
    /\ lastOp.op = "fold"
    /\ \E c \in DOMAIN conversations :
          \E i \in 1..Len(conversations[c].messages) :
              /\ conversations[c].messages[i].id = lastOp.rumorId
              /\ conversations[c].messages[i].wrapId # lastOp.wrapId

\* C10: a step that folds a new (not yet seen) non-reaction rumor into its
\* conversation increases that conversation's unread counter by exactly 1
\* when the author is not the local user and created_at is strictly greater
\* than the persisted last-seen timestamp of the conversation, leaves it
\* unchanged otherwise, and changes no other conversation's counter.
C10_UnreadAccounting ==
    [][\A id \in seenRumorIds' \ seenRumorIds :
         \A c \in DOMAIN conversations' :
           \A i \in 1..Len(conversations'[c].messages) :
             LET m == conversations'[c].messages[i]
             IN  m.id = id =>
                   /\ UnreadOf(conversations', c)
                        = UnreadOf(conversations, c)
                          + (IF m.pubkey # user.pubkey
                                /\ m.created_at > getLastSeen(ES, c)
                             THEN 1 ELSE 0)
                   /\ \A d \in DOMAIN conversations' \ {c} :
                         /\ d \in DOMAIN conversations
                         /\ conversations'[d].unreadCount
                              = conversations[d].unreadCount]_vars

\* the last step folded an unread DM of a peer while another conversation
\* had unread messages of its own
C10_Witness ==
    /\ lastOp.op = "fold"
    /\ \E c \in DOMAIN conversations :
          /\ \E i \in 1..Len(conversations[c].messages) :
                LET m == conversations[c].messages[i]
                IN  /\ m.id = lastOp.rumorId
                    /\ m.wrapId = lastOp.wrapId
                    /\ m.pubkey # user.pubkey
                    /\ m.created_at > getLastSeen(ES, c)
          /\ conversations[c].unreadCount = 1
          /\ Len(conversations[c].messages) = 2
          /\ \E d \in DOMAIN conversations \ {c} :
                conversations[d].unreadCount = 1

(***************************************************************************)
(* Claims on the publish tracker                                           *)
(***************************************************************************)
\* the record and the relay sets of the send the last step made
SentRecord == sendStatuses[lastOp.rumorId]
RecipientRelaySet ==
    Range(inboxRelayCache[lastOp.recipient]) \cup Range(defaultRelays)
SenderRelaySet ==
    Range(inboxRelayCache[user.pubkey]) \cup Range(defaultRelays)
JustSent == lastOp.op = "handleSend" /\ lastOp.ok

\* the promises pool.publish returned for relay r, among those after base
PublishesTo(r, base) == {p \in (base + 1)..Len(pubs) : pubs[p].relay = r}

\* C4: when a record holds relays with status sent and others with status
\* failed or timeout, handleRetry re-publishes only to the relays that are
\* not sent: a sent relay receives no new publish and stays sent.
C4_RetrySkipsSentRelays ==
    [][retries' # retries =>
         LET status == sendStatuses[lastOp'.rumorId]
             relays == DOMAIN status.relays
         IN  \A r \in relays :
                (/\ status.relays[r] = "sent"
                 /\ \E q \in relays : status.relays[q] \in {"failed", "timeout"})
                => /\ sendStatuses'[lastOp'.rumorId].relays[r] = "sent"
                   /\ \A p \in (Len(pubs) + 1)..Len(pubs') : pubs'[p].relay # r
      ]_vars

\* C5: between two retries a relay's status changes at most once, from
\* pending to sent, failed or timeout: a status that is sent, failed or
\* timeout stays as it is in every step that is not a handleRetry, also for
\* a relay of both relay sets.  (A record that goes with its view when the
\* chat is left has no status any more.)
C5_TerminalUntilRetry ==
    [][retries' = retries =>
         \A id \in DOMAIN sendStatuses \cap DOMAIN sendStatuses' :
            \A r \in DOMAIN sendStatuses[id].relays :
               sendStatuses[id].relays[r] \in {"sent", "failed", "timeout"}
               => sendStatuses'[id].relays[r] = sendStatuses[id].relays[r]
      ]_vars

PublishedIds(ps) == {ps[p].event.id : p \in 1..Len(ps)}

\* C6: every event handleRetry publishes is one of the signed wraps stored in
\* the record's retryWraps at send time, published to a relay of that wrap;
\* retry draws no new key and leaves retryWraps as they are, so the set of
\* wrap event ids published for the rumor is fixed once the send returned
\* (a step that is no step of a send call leaves it as it is).
C6_RetryPublishesStoredWraps ==
    [][(sends' = sends /\ calls' = calls) =>
         /\ PublishedIds(pubs') = PublishedIds(pubs)
         /\ ephCount' = ephCount
         /\ retries' # retries =>
              LET stored == sendStatuses[lastOp'.rumorId].retryWraps
              IN  /\ sendStatuses'[lastOp'.rumorId].retryWraps = stored
                  /\ Len(pubs') > Len(pubs)
                  /\ \A p \in (Len(pubs) + 1)..Len(pubs') :
                        \E i \in 1..Len(stored) :
                           /\ pubs'[p].event = stored[i].event
                           /\ pubs'[p].relay \in Range(stored[i].relays)
      ]_vars

\* the last step was a retry that published the two stored wraps again
C6_Witness ==
    /\ lastOp.op = "handleRetry"
    /\ retries = 1
    /\ Len(pubs) = 2 * Len(PublishAll(sendStatuses[lastOp.rumorId].retryWraps))
    /\ Cardinality(PublishedIds(pubs)) = 2

\* the event of race j that a step holds: its timer fires, or its publish
\* promise resolves or rejects
RaceEvent(j) ==
    IF races'[j].timer # races[j].timer THEN "timeout"
    ELSE IF pubs'[races[j].promise].state = pubs[races[j].promise].state
    THEN "none"
    ELSE IF pubs'[races[j].promise].state = "resolved" THEN "sent"
    ELSE "failed"

\* an event of race j has already happened
HadEvent(j) ==
    races[j].timer = "fired" \/ pubs[races[j].promise].state # "pending"

\* C7: the status one publish attempt sets for its relay is decided by the
\* first of its three events: the promise resolves (sent), the promise
\* rejects (failed), the timer fires (timeout); a later event of the same
\* attempt changes no status.
C7_FirstEventDecides ==
    [][\A j \in 1..Len(races) :
          RaceEvent(j) # "none" =>
             IF HadEvent(j)
             THEN sendStatuses' = sendStatuses
             ELSE sendStatuses'[races[j].rumorId].relays[races[j].relay]
                     = RaceEvent(j)
      ]_vars

\* the timer of an attempt fired and its promise resolved, and the timer was
\* first: the status is timeout
C7_Witness ==
    /\ retries = 0
    /\ \E j \in 1..Len(races) :
          /\ races[j].timer = "fired"
          /\ pubs[races[j].promise].state = "resolved"
          /\ sendStatuses[races[j].rumorId].relays[races[j].relay] = "timeout"

\* C8: the record created for a sent DM has one entry per unique relay of the
\* union of the recipient and the sender relay sets, one attempt is tracked
\* per entry, and every entry is pending when the record is created.
C8_RecordCoversUnionPending ==
    JustSent =>
      /\ DOMAIN SentRecord.relays = RecipientRelaySet \cup SenderRelaySet
      /\ \A r \in DOMAIN SentRecord.relays : SentRecord.relays[r] = "pending"
      /\ \A r \in DOMAIN SentRecord.relays :
            Cardinality({j \in 1..Len(races) : races[j].relay = r}) = 1

\* a DM was just sent whose relay sets share a relay and differ in another
C8_Witness ==
    /\ JustSent
    /\ RecipientRelaySet \cap SenderRelaySet # {}
    /\ RecipientRelaySet # SenderRelaySet
    /\ Cardinality(DOMAIN SentRecord.relays) = 2

\* C9 as claimed: wrapAndSendDM issues exactly one publish per unique relay
\* of the union of the two relay sets, a relay of both sets being published
\* to once.
C9_OnePublishPerUniqueRelay ==
    JustSent =>
      \A r \in RecipientRelaySet \cup SenderRelaySet :
         Cardinality(PublishesTo(r, lastOp.base)) = 1

\* C9 as amended: wrapAndSendDM issues one publish per wrap and relay of the
\* wrap's relay set: the recipient wrap to every relay of the recipient set,
\* the sender wrap to every relay of the sender set, so a relay of both sets
\* is published to twice; the promises it returns for tracking are one per
\* unique relay, the first issued for that relay.
C9_OnePublishPerWrapAndRelay ==
    JustSent =>
      /\ \A r \in RecipientRelaySet :
            Cardinality({p \in PublishesTo(r, lastOp.base) :
                           pubs[p].event = SentRecord.retryWraps[1].event}) = 1
      /\ \A r \in SenderRelaySet :
            Cardinality({p \in PublishesTo(r, lastOp.base) :
                           pubs[p].event = SentRecord.retryWraps[2].event}) = 1
      /\ Len(pubs) - lastOp.base
           = Cardinality(RecipientRelaySet) + Cardinality(SenderRelaySet)
      /\ SentRecord.retryWraps[1].event.tags = <<<<"p", lastOp.recipient>>>>
      /\ SentRecord.retryWraps[2].event.tags = <<<<"p", user.pubkey>>>>
      /\ \A r \in RecipientRelaySet \cup SenderRelaySet :
            \E j \in 1..Len(races) :
               /\ races[j].relay = r
               /\ races[j].promise \in PublishesTo(r, lastOp.base)
               /\ \A p \in PublishesTo(r, lastOp.base) : races[j].promise <= p

\* a DM was just sent, one relay got both wraps and another the recipient
\* wrap only
C9_Witness ==
    /\ JustSent
    /\ \E r \in RecipientRelaySet \cap SenderRelaySet :
          Cardinality(PublishesTo(r, lastOp.base)) = 2
    /\ \E r \in RecipientRelaySet \ SenderRelaySet :
          Cardinality(PublishesTo(r, lastOp.base)) = 1

(***************************************************************************)
(* C15  unwrapGiftWrap never raises: whatever goes wrong inside (the wrap  *)
(* or the seal does not decrypt under the reader's key, a payload is not   *)
(* JSON, the signer has no nip44Decrypt) the call returns null.            *)
(***************************************************************************)
UnwrapFails(in) ==
    \/ in.fault # "none"
    \/ in.reader # in.recipient
    \/ in.read = "signer" /\ ~in.canDecrypt

C15_UnwrapNeverRaises ==
    pPc = "done"
    => /\ pOut.ok \/ pOut = Null
       /\ UnwrapFails(pIn) => pOut = Null

C15_Witness ==
    /\ pPc = "done"
    /\ pIn.fault = "rumorNotJson"
    /\ pIn.reader = pIn.recipient
    /\ pIn.read = "signer"
    /\ pIn.canDecrypt
    /\ pOut = Null

(***************************************************************************)
(* C13  getConversationId depends only on the set {myPubkey} \cup pTags:   *)
(* two calls give the same id when their sets are equal (whatever the      *)
(* order, the repetitions, or the participant passed as myPubkey) and      *)
(* different ids when their sets differ.                                   *)
(***************************************************************************)
ParticipantSet(call) == {call.myPubkey} \cup Range(call.pTags)

C13_IdIsTheParticipantSet ==
    pPc = "done"
    => (pOut.a = pOut.b <=> ParticipantSet(pIn.a) = ParticipantSet(pIn.b))

C13_Witness ==
    /\ pPc = "done"
    /\ pIn.a = [myPubkey |-> 176, pTags |-> <<11, 22>>]
    /\ pIn.b = [myPubkey |-> 22, pTags |-> <<176, 11>>]
    /\ pOut.a = pOut.b
    /\ pOut.a = Hex(11) \o <<PlusSign>> \o Hex(22) \o <<PlusSign>> \o Hex(176)

(***************************************************************************)
(* C11  A markAsRead(conversationId) step sets the unread counter of that  *)
(* conversation to 0 and its persisted last-seen timestamp to the time of  *)
(* the call; the messages, reactions and participants of the conversation, *)
(* and every other conversation, are unchanged.                            *)
(***************************************************************************)
C11_MarkAsReadFrame ==
    [][lastOp'.op = "markAsRead" =>
         LET c == lastOp'.conversationId
         IN  /\ DOMAIN conversations' = DOMAIN conversations
             /\ c \in DOMAIN conversations
             /\ conversations'[c].unreadCount = 0
             /\ conversations'[c] = [conversations[c] EXCEPT !.unreadCount = 0]
             /\ lastSeenStore'[c] = clock
             /\ \A d \in DOMAIN conversations \ {c} :
                    conversations'[d] = conversations[d]
             /\ \A d \in DOMAIN lastSeenStore \ {c} :
                    lastSeenStore'[d] = lastSeenStore[d]
             /\ UNCHANGED <<seenRumorIds, dmCache, reactionStore>>]_vars

\* markAsRead has just reset a conversation with unread messages, at a time
\* later than its newest message, while another conversation keeps its own
C11_Witness ==
    /\ lastOp.op = "markAsRead"
    /\ lastOp.unreadBefore > 0
    /\ LET c == lastOp.conversationId
       IN  /\ conversations[c].unreadCount = 0
           /\ Len(conversations[c].messages) > 0
           /\ lastSeenStore[c] = clock
           /\ \E d \in DOMAIN conversations \ {c} :
                  conversations[d].unreadCount > 0

(***************************************************************************)
(* C19  A received wrap whose id is in the decrypted-message cache is      *)
(* folded from the cache: the step folds the cached rumor and starts no    *)
(* unwrapGiftWrap call, and no unwrapGiftWrap call is ever started for a   *)
(* wrap whose id is in the cache.                                          *)
(***************************************************************************)
C19_CacheHitSkipsUnwrap ==
    [][/\ \A x \in BagToSet(inflight') :
             CopiesIn(x, inflight') > CopiesIn(x, inflight)
             => ~Has(dmCache, x.event.id)
       /\ lastOp'.op = "onEvent" => ~Has(dmCache, lastOp'.wrapId)
       /\ (lastOp'.op = "fold" /\ lastOp'.from = "cache")
          => /\ Has(dmCache, lastOp'.wrapId)
             /\ inflight' = inflight
             /\ dmCache[lastOp'.wrapId].id = lastOp'.rumorId
             /\ lastOp'.rumorId \in seenRumorIds']_vars

\* a wrap was delivered again after its rumor had been cached under its id
C19_Witness ==
    /\ lastOp.op = "fold"
    /\ lastOp.from = "cache"
    /\ Has(dmCache, lastOp.wrapId)
    /\ \E c \in DOMAIN conversations :
          \E i \in 1..Len(conversations[c].messages) :
              /\ conversations[c].messages[i].id = lastOp.rumorId
              /\ conversations[c].messages[i].wrapId = lastOp.wrapId

(***************************************************************************)
(* C20  After a received wrap has been unwrapped and handled, the          *)
(* decrypted-message cache holds its rumor under the wrap's event id (also *)
(* when the rumor id was already seen through another wrap).               *)
(***************************************************************************)
C20_UnwrappedWrapIsCached ==
    (lastOp.op = "fold" /\ lastOp.from = "unwrap")
    => /\ Has(dmCache, lastOp.wrapId)
       /\ dmCache[lastOp.wrapId].id = lastOp.rumorId

(***************************************************************************)
(* C14  A successful wrapAndSendDM produces exactly two wraps for one      *)
(* rumor: the first p-tagged to the recipient and carrying the recipient's *)
(* relays, the second p-tagged to the sender and carrying the sender's     *)
(* relays.  The recipient unwraps the first and the sender the second to   *)
(* the same rumor: the id returned by the call, kind 14, pubkey of the     *)
(* sender, the content that was sent.  Nothing else is published.          *)
(***************************************************************************)
UnwrapsTo(wrap, reader, rumor) ==
    /\ unwrapGiftWrap(wrap, SecretKey(reader), Signer(reader, TRUE, TRUE))
         = Ok(rumor)
    /\ unwrapGiftWrap(wrap, NoPrivateKey, Signer(reader, TRUE, TRUE))
         = Ok(rumor)

C14_TwoWrapsOneRumor ==
    JustSent =>
      LET wraps == SentRecord.retryWraps
          rumor == RumorInside(wraps[1].event)
      IN  /\ Len(wraps) = 2
          /\ wraps[1].event.kind = KindGiftWrap
          /\ wraps[2].event.kind = KindGiftWrap
          /\ wraps[1].event.tags = <<<<"p", lastOp.recipient>>>>
          /\ wraps[2].event.tags = <<<<"p", user.pubkey>>>>
          /\ Range(wraps[1].relays) = RecipientRelaySet
          /\ Range(wraps[2].relays) = SenderRelaySet
          /\ UnwrapsTo(wraps[1].event, lastOp.recipient, rumor)
          /\ UnwrapsTo(wraps[2].event, user.pubkey, rumor)
          /\ rumor.id = lastOp.rumorId
          /\ rumor.id = computeRumorId(rumor)
          /\ rumor.kind = KindDM
          /\ rumor.pubkey = user.pubkey
          /\ rumor.content = "hi"
          /\ {pubs[p].event : p \in (lastOp.base + 1)..Len(pubs)}
               = {wraps[1].event, wraps[2].event}

\* a signer session has just sent to a recipient with a relay list of its own
C14_Witness ==
    /\ JustSent
    /\ user.privateKey = NoPrivateKey
    /\ Len(SentRecord.retryWraps) = 2
    /\ SentRecord.retryWraps[1].event.pubkey # SentRecord.retryWraps[2].event.pubkey
    /\ RecipientRelaySet # SenderRelaySet
    /\ Len(pubs) = 3

(***************************************************************************)
(* C16  When the session has no private key and the signer has no          *)
(* nip44Encrypt, the send fails and mutates nothing: nothing is published, *)
(* no message is added, and the seen-id set, the message cache and the     *)
(* relay-list caches are what they were before the call.                   *)
(***************************************************************************)
C16_FailedSendMutatesNothing ==
    [][(lastOp'.op = "handleSend" /\ ~lastOp'.ok)
       => /\ user.privateKey = NoPrivateKey
          /\ ~activeSigner.nip44Encrypt
          /\ UNCHANGED <<pubs, conversations, seenRumorIds, dmCache>>
          /\ UNCHANGED <<inboxRelayCache, relayStore>>]_vars

(***************************************************************************)
(* C12  Whatever reactions are ingested (events of the subscription, the   *)
(* local echo of an own reaction, reactions reloaded from the persisted    *)
(* reaction cache when a conversation is rebuilt), the reaction list of    *)
(* every target message holds at most one entry per (pubkey, emoji), in    *)
(* memory and in the persisted per-conversation reaction cache.            *)
(***************************************************************************)
OnePerPubkeyAndEmoji(list) ==
    \A i \in 1..Len(list) : \A j \in 1..Len(list) :
        (list[i].pubkey = list[j].pubkey /\ list[i].emoji = list[j].emoji)
        => i = j

C12_OneReactionPerPubkeyAndEmoji ==
    /\ \A c \in DOMAIN conversations :
          \A t \in DOMAIN conversations[c].reactions :
              OnePerPubkeyAndEmoji(conversations[c].reactions[t])
    /\ \A c \in DOMAIN reactionStore :
          \A t \in DOMAIN reactionStore[c] :
              OnePerPubkeyAndEmoji(reactionStore[c][t])

\* in the second session the conversation was rebuilt with the reactions of
\* the cache, both reaction rumors of the peer and the own one went through
\* addMessage, and the target holds the peer's entry and the own entry
C12_Witness ==
    /\ subCount = 2
    /\ {PeerReaction(1).id, PeerReaction(2).id} \subseteq seenRumorIds
    /\ \E c \in DOMAIN conversations :
          /\ Has(conversations[c].reactions, PeerRumor.id)
          /\ Len(conversations[c].reactions[PeerRumor.id]) = 2
          /\ Has(reactionStore, c)
          /\ Len(reactionStore[c][PeerRumor.id]) = 2
          /\ {conversations[c].reactions[PeerRumor.id][i].pubkey : i \in 1..2}
               = {Alice, Bob}

(***************************************************************************)
(* C17  A session teardown, by logout or by a direct change from one       *)
(* logged-in user to another, leaves the in-memory conversation map and    *)
(* the seen-rumor-id set empty.                                            *)
(***************************************************************************)
C17_TeardownClearsMemory ==
    [][lastOp'.op \in {"logout", "switchUser"}
       => conversations' = <<>> /\ seenRumorIds' = {}]_vars

(***************************************************************************)
(* C18  At every moment at most one kind-1059 subscription is live, and it *)
(* is the one of the current session: none outlives the teardown of the    *)
(* session that started it.                                                *)
(***************************************************************************)
C18_OneLiveSubscription ==
    /\ Cardinality(subs) <= 1
    /\ \A h \in subs : user # NoUser /\ h.id = subCount

(***************************************************************************)
(* Claims on the relay-list lookups                                        *)
(***************************************************************************)
\* the answer of the network holds no relay list: the query failed, found no
\* event, or found an event without relay tags
NoRelayList(net) ==
    net.outcome # "event" \/ TagValues(net.tags, "relay") = <<>>

\* a lookup of a pubkey that is in memory returns the entry and asks nobody;
\* an entry stays in memory until the page is loaded again
ServedFromMemory ==
    /\ (lastOp'.op = "lookup" /\ Has(inboxRelayCache, lastOp'.pubkey))
       => /\ lastOp'.done
          /\ lastOp'.relays = inboxRelayCache[lastOp'.pubkey]
          /\ UNCHANGED <<inboxRelayCache, relayStore, refreshes, lookups>>
    /\ lastOp'.op # "reload"
       => DOMAIN inboxRelayCache \subseteq DOMAIN inboxRelayCache'

\* C21 as claimed: a cold lookup whose network query fails or finds no relay
\* returns the single default relay and stores it in the in-memory cache, and
\* every later lookup of the pubkey in the session is served from memory
\* without a network query.
C21_FallbackReturnedAndCached ==
    [][/\ (lastOp'.op = "lookupAnswers" /\ NoRelayList(lastOp'.net))
          => /\ lastOp'.relays = FallbackRelays
             /\ inboxRelayCache'[lastOp'.pubkey] = FallbackRelays
       /\ ServedFromMemory]_vars

\* C21 as amended: a cold lookup whose network query fails or finds no relay
\* returns the single default relay and stores it in the in-memory cache,
\* unless another lookup has put a list for the pubkey into the cache while
\* the query was in flight: then that list is returned and stays.  Either
\* way the pubkey is in memory afterwards and every later lookup of it in the
\* session is served from memory without a network query.
C21_FallbackUnlessCachedMeanwhile ==
    [][/\ (lastOp'.op = "lookupAnswers" /\ NoRelayList(lastOp'.net))
          => LET p == lastOp'.pubkey
             IN  /\ IF Has(inboxRelayCache, p)
                    THEN /\ lastOp'.relays = inboxRelayCache[p]
                         /\ UNCHANGED <<inboxRelayCache, relayStore>>
                    ELSE /\ lastOp'.relays = FallbackRelays
                         /\ inboxRelayCache' = Put(inboxRelayCache, p,
                                                   FallbackRelays)
                 /\ inboxRelayCache'[p] = lastOp'.relays
       /\ ServedFromMemory]_vars

\* the fallback of a peer is in memory and a further lookup was served from it
C21_Witness ==
    /\ lastOp.op = "lookup"
    /\ lastOp.pubkey = Bob
    /\ lastOp.done
    /\ lastOp.relays = FallbackRelays
    /\ inboxRelayCache[Bob] = FallbackRelays
    /\ lookups = EmptyBag
    /\ refreshes = {}

(***************************************************************************)
(* C22  A lookup with persist of a pubkey that is not in memory and is in  *)
(* localStorage returns the stored list at once (it does not wait for the  *)
(* network) and starts a refresh.  When the refresh answers, the in-memory *)
(* entry and the stored entry are replaced by the fetched event's list     *)
(* exactly when the event has a relay and a created_at strictly greater    *)
(* than the stored created_at; otherwise both entries stay as they are.    *)
(***************************************************************************)
C22_StaleWhileRevalidate ==
    [][/\ (/\ lastOp'.op = "lookup"
           /\ lastOp'.persist
           /\ ~Has(inboxRelayCache, lastOp'.pubkey)
           /\ Has(relayStore, lastOp'.pubkey))
          => LET p == lastOp'.pubkey
             IN  /\ lastOp'.done
                 /\ lastOp'.relays = relayStore[p].relays
                 /\ inboxRelayCache' = Put(inboxRelayCache, p,
                                           relayStore[p].relays)
                 /\ UNCHANGED <<relayStore, lookups>>
                 /\ refreshes' # refreshes
       /\ lastOp'.op = "refreshAnswers"
          => LET p == lastOp'.pubkey
                 net == lastOp'.net
                 relays == TagValues(net.tags, "relay")
             IN  IF /\ net.outcome = "event"
                    /\ relays # <<>>
                    /\ net.created_at > relayStore[p].created_at
                 THEN /\ inboxRelayCache' = Put(inboxRelayCache, p, relays)
                      /\ relayStore' =
                           Put(relayStore, p,
                               [relays |-> relays,
                                created_at |-> net.created_at])
                 ELSE UNCHANGED <<inboxRelayCache, relayStore>>]_vars

\* a refresh has just replaced the stored older list by the newer one, in
\* memory and in localStorage
C22_Witness ==
    /\ lastOp.op = "refreshAnswers"
    /\ lastOp.knownAt = 1
    /\ lastOp.net.created_at = 2
    /\ relayStore[lastOp.pubkey] =
         [relays |-> TagValues(lastOp.net.tags, "relay"), created_at |-> 2]
    /\ inboxRelayCache[lastOp.pubkey] = relayStore[lastOp.pubkey].relays

(***************************************************************************)
(* C23  Whatever lookups and refreshes of a pubkey are in flight together, *)
(* a step replaces the cached list of the pubkey (in memory, in            *)
(* localStorage) only by the list of an event strictly newer than the      *)
(* event the replaced list came from.                                      *)
(***************************************************************************)
C23_NeverBackToAnOlderList ==
    [][lastOp'.op # "reload"
       => /\ \A p \in DOMAIN inboxRelayCache :
                inboxRelayCache'[p] # inboxRelayCache[p]
                => SourceAt(inboxRelayCache'[p]) > SourceAt(inboxRelayCache[p])
          /\ \A p \in DOMAIN relayStore :
                relayStore'[p] # relayStore[p]
                => relayStore'[p].created_at > relayStore[p].created_at]_vars

(***************************************************************************)
(* C24  A lookup without persist neither reads nor writes localStorage:    *)
(* its steps leave the store as it is, and with the pubkey not in memory   *)
(* it goes to the network even when the store has an entry of the pubkey.  *)
(* The store holds entries only of the pubkey looked up with persist, and  *)
(* a background refresh (started by a store hit) is one of a lookup with   *)
(* persist.                                                                *)
(***************************************************************************)
C24_NoPersistNoStore ==
    /\ [](DOMAIN relayStore \subseteq {call[1] : call \in {c \in LookupCalls : c[2]}})
    /\ [](\A x \in refreshes : x.persist)
    /\ [][(lastOp'.op \in {"lookup", "lookupAnswers"} /\ ~lastOp'.persist)
          => /\ relayStore' = relayStore
             /\ (lastOp'.op = "lookup"
                 /\ ~Has(inboxRelayCache, lastOp'.pubkey))
                => /\ ~lastOp'.done
                   /\ refreshes' = refreshes
                   /\ BagCardinality(lookups') = BagCardinality(lookups) + 1]_vars

\* after a reload, with the own list in localStorage, the own pubkey was
\* looked up without persist and the call waits for the network
C24_Witness ==
    /\ lastOp.op = "lookup"
    /\ ~lastOp.persist
    /\ ~lastOp.done
    /\ Has(relayStore, lastOp.pubkey)
    /\ relayStore[lastOp.pubkey].created_at > 0
    /\ ~Has(inboxRelayCache, lastOp.pubkey)

(***************************************************************************)
(* C25  A send call does not wait for the relays: no call of               *)
(* wrapAndSendDM or wrapAndSendReaction is suspended while a publish it    *)
(* issued is still pending (wrapAndSendDM returns in the step that issues  *)
(* its publishes; the calls of wrapAndSendReaction that have not returned  *)
(* are those in calls).                                                 *)
(***************************************************************************)
C25_SendDoesNotWaitForRelays ==
    \A call \in calls : \A p \in call.waiting : pubs[p].state # "pending"

(***************************************************************************)
(* C26  The read state survives a restart.  The time markAsRead stored for *)
(* a conversation is never lost or lowered, by a teardown or otherwise;    *)
(* every fold (of a decrypted wrap or of a cached one, in the first        *)
(* session or in a later one that rebuilds the conversation) counts the    *)
(* message as unread only when it is a peer's and its created_at is        *)
(* greater than that time; so the unread counter of a conversation never   *)
(* exceeds the number of its peer messages newer than the stored time.     *)
(***************************************************************************)
NewerPeerMessages(c) ==
    {i \in 1..Len(conversations[c].messages) :
        /\ conversations[c].messages[i].pubkey # pIn.pubkey
        /\ conversations[c].messages[i].created_at > getLastSeen(ES, c)}

C26_ReadStateSurvivesRestart ==
    /\ [](\A c \in DOMAIN conversations :
             conversations[c].unreadCount <= Cardinality(NewerPeerMessages(c)))
    /\ [][/\ \A c \in DOMAIN lastSeenStore :
                /\ c \in DOMAIN lastSeenStore'
                /\ lastSeenStore'[c] >= lastSeenStore[c]
          /\ lastOp'.op = "markAsRead"
             => lastSeenStore'[lastOp'.conversationId] = clock
          /\ \A c \in DOMAIN conversations' :
                (lastOp'.op = "fold"
                 /\ Len(conversations'[c].messages)
                      > (IF c \in DOMAIN conversations
                         THEN Len(conversations[c].messages) ELSE 0))
                => \E i \in 1..Len(conversations'[c].messages) :
                      LET m == conversations'[c].messages[i]
                      IN  /\ m.id = lastOp'.rumorId
                          /\ conversations'[c].unreadCount
                               = UnreadOf(conversations, c)
                                 + (IF m.pubkey # pIn.pubkey
                                       /\ m.created_at > getLastSeen(ES, c)
                                    THEN 1 ELSE 0)]_vars

\* in the second session the thread was rebuilt from the cache after it had
\* been read at time 1: the three messages are back and only the later one
\* counts as unread
C26_Witness ==
    /\ subCount = 2
    /\ lastOp.op = "fold"
    /\ lastOp.from = "cache"
    /\ \E c \in DOMAIN conversations :
          /\ Len(conversations[c].messages) = 3
          /\ getLastSeen(ES, c) = 1
          /\ conversations[c].unreadCount = 1
          /\ Cardinality(NewerPeerMessages(c)) = 1

(***************************************************************************)
(* C28  Every conversation's message list is sorted by non-decreasing      *)
(* created_at, and a fold puts the new message behind every message with   *)
(* the same or a smaller created_at and leaves the order of the others as  *)
(* it was: messages of the same second stay in the order they were folded. *)
(***************************************************************************)
C28_SortedTiesInArrivalOrder ==
    /\ [](\A c \in DOMAIN conversations :
             \A i, j \in 1..Len(conversations[c].messages) :
                i < j => conversations[c].messages[i].created_at
                         <= conversations[c].messages[j].created_at)
    /\ [][\A c \in DOMAIN conversations \cap DOMAIN conversations' :
             LET old == conversations[c].messages
                 new == conversations'[c].messages
             IN  \/ new = old
                 \/ \E k \in 0..Len(old) :
                       /\ Len(new) = Len(old) + 1
                       /\ SubSeq(new, 1, k) = SubSeq(old, 1, k)
                       /\ SubSeq(new, k + 2, Len(new))
                            = SubSeq(old, k + 1, Len(old))
                       /\ \A i \in 1..k :
                             old[i].created_at <= new[k + 1].created_at
                       /\ \A i \in (k + 1)..Len(old) :
                             old[i].created_at > new[k + 1].created_at]_vars

\* the first message of second 1 was folded last, after the two others: it
\* went behind the other message of its second and before the later one
C28_Witness ==
    /\ lastOp.op = "fold"
    /\ lastOp.rumorId = ThreadRumors[1].id
    /\ lastOp.from = "unwrap"
    /\ \E c \in DOMAIN conversations :
          /\ Len(conversations[c].messages) = 3
          /\ conversations[c].messages[1].id = ThreadRumors[2].id
          /\ conversations[c].messages[2].id = ThreadRumors[1].id
          /\ conversations[c].messages[3].id = ThreadRumors[3].id

(***************************************************************************)
(* C27  Every wrap built by a send (a DM or a reaction, with the local key *)
(* or through the signer) is signed by a key of its own: its pubkey is the *)
(* pubkey of the key that signed it, is not the pubkey of a user (not the  *)
(* sender's, which is the pubkey of the seal inside), and no other wrap    *)
(* has it; so the two copies of one rumor have different pubkeys.          *)
(***************************************************************************)
\* the wraps built so far: the published ones and those a call holds for a
\* later publish
BuiltWraps ==
    {pubs[i].event : i \in 1..Len(pubs)}
    \cup UNION {Range(call.wraps) : call \in calls}

C27_EphemeralKeyPerWrap ==
    \A w \in BuiltWraps :
        /\ w.kind = KindGiftWrap
        /\ w.sig.by = w.pubkey
        /\ w.pubkey \notin Users
        /\ w.pubkey # SealInside(w).pubkey
        /\ SealInside(w).pubkey = user.pubkey
        /\ \A v \in BuiltWraps : v.pubkey = w.pubkey => v = w

\* a signer session has sent a DM and a reaction: four wraps, two per rumor,
\* with four pubkeys
C27_Witness ==
    /\ user.privateKey = NoPrivateKey
    /\ sends = 2
    /\ Cardinality(BuiltWraps) = 4
    /\ Cardinality({w.pubkey : w \in BuiltWraps}) = 4
    /\ Cardinality({RumorInside(w).id : w \in BuiltWraps}) = 2
    /\ {RumorInside(w).kind : w \in BuiltWraps} = {KindDM, KindReaction}

(***************************************************************************)
(* C29  Every relay status that is pending becomes sent, failed or timeout *)
(* in the end, after the send and after each retry, also when no publish   *)
(* ever settles: a pending relay always has a race of its own with an      *)
(* armed timer, which no other relay can hold back.  (A status that went   *)
(* with its view when the chat was left reads "none".)                     *)
(***************************************************************************)
TrackedRelays == {"wss://relay.damus.io/", "wss://inbox.relay/"}

\* the status of relay r in the record of the DM of the run
StatusOf(r) ==
    IF \E id \in DOMAIN sendStatuses : r \in DOMAIN sendStatuses[id].relays
    THEN LET id == CHOOSE id \in DOMAIN sendStatuses :
                       r \in DOMAIN sendStatuses[id].relays
         IN  sendStatuses[id].relays[r]
    ELSE "none"

C29_PendingEnds ==
    /\ \A r \in TrackedRelays :
          (StatusOf(r) = "pending")
          ~> (StatusOf(r) \in {"sent", "failed", "timeout"})
    /\ [](\A id \in DOMAIN sendStatuses :
             \A r \in DOMAIN sendStatuses[id].relays :
                sendStatuses[id].relays[r] = "pending"
                => \E j \in 1..Len(races) :
                      /\ races[j].rumorId = id
                      /\ races[j].relay = r
                      /\ races[j].timer = "armed"
                      /\ ~races[j].settled)

(***************************************************************************)
(* C30  A sent DM is in its conversation as a local echo under the         *)
(* synthetic key local_<rumor id>: from the send on the conversation holds *)
(* exactly one message of that rumor, the one of the echo, also after the  *)
(* sender's self-copy wrap was delivered and unwrapped, and the message    *)
(* cache holds the echo under the synthetic key, which is the id of no     *)
(* wrap a relay can deliver.                                               *)
(***************************************************************************)
LocalKey(rumorId) == <<"local", rumorId>>

\* the places <<conversation, index>> of the messages of a rumor
MessagesOf(rumorId) ==
    UNION {{<<c, i>> : i \in {k \in 1..Len(conversations[c].messages) :
                                conversations[c].messages[k].id = rumorId}} :
           c \in DOMAIN conversations}

C30_OneEchoPerSentRumor ==
    \A rumorId \in DOMAIN sendStatuses :
        /\ Cardinality(MessagesOf(rumorId)) = 1
        /\ \A ci \in MessagesOf(rumorId) :
              /\ conversations[ci[1]].messages[ci[2]].wrapId = LocalKey(rumorId)
              /\ conversations[ci[1]].messages[ci[2]].pubkey = user.pubkey
              /\ ci[1] = getConversationId(user.pubkey, <<Bob>>)
        /\ Has(dmCache, LocalKey(rumorId))
        /\ dmCache[LocalKey(rumorId)].id = rumorId
        /\ \A event \in Deliverable : event.id # LocalKey(rumorId)

\* the self-copy of the sent DM came back, was unwrapped and folded: the
\* conversation still holds the echo alone
C30_Witness ==
    /\ lastOp.op = "fold"
    /\ lastOp.from = "unwrap"
    /\ lastOp.wrapId \in {event.id : event \in SelfCopies}
    /\ lastOp.rumorId \in DOMAIN sendStatuses
    /\ Cardinality(MessagesOf(lastOp.rumorId)) = 1
    /\ \A ci \in MessagesOf(lastOp.rumorId) :
          conversations[ci[1]].messages[ci[2]].wrapId = LocalKey(lastOp.rumorId)

\* C31: a received event that the cache does not hold and that
\* unwrapGiftWrap answers with null changes nothing: the step that receives
\* it and the step in which its decryption ends leave the conversation map,
\* the seen set, the message cache, the reaction cache and the read state as
\* they were, and the decryption ends with null, not with an exception.
C31_NullUnwrapChangesNothing ==
    [][/\ lastOp'.op = "onEvent"
          => UNCHANGED <<conversations, seenRumorIds, dmCache, reactionStore,
                         lastSeenStore>>
       /\ \A x \in BagToSet(inflight) :
             (/\ inflight' = inflight (-) SetToBag({x})
              /\ ~unwrapGiftWrap(x.event, x.privateKey, x.signer).ok)
             => /\ unwrapGiftWrap(x.event, x.privateKey, x.signer) = Null
                /\ lastOp'.op = "dropped"
                /\ UNCHANGED <<conversations, seenRumorIds, dmCache,
                               reactionStore, lastSeenStore>>]_vars

\* an event was dropped while the engine held a conversation, a cached
\* message and a read time, and another decryption was still in flight
C31_Witness ==
    /\ lastOp.op = "dropped"
    /\ conversations # <<>>
    /\ dmCache # <<>>
    /\ lastSeenStore # <<>>
    /\ inflight # EmptyBag

\* C32: markAllAsRead sets the unread counter to 0 and the last-seen time to
\* the call time for every conversation whose counter is nonzero, leaves
\* every conversation whose counter is 0 as it is, its stored last-seen time
\* included, and the unread total is 0 afterwards.
C32_MarkAllAsRead ==
    [][lastOp'.op = "markAllAsRead"
       => /\ DOMAIN conversations' = DOMAIN conversations
          /\ \A id \in DOMAIN conversations :
                IF conversations[id].unreadCount > 0
                THEN /\ conversations'[id] =
                           [conversations[id] EXCEPT !.unreadCount = 0]
                     /\ Has(lastSeenStore', id)
                     /\ lastSeenStore'[id] = lastOp'.now
                ELSE /\ conversations'[id] = conversations[id]
                     /\ Has(lastSeenStore', id) = Has(lastSeenStore, id)
                     /\ Has(lastSeenStore, id)
                           => lastSeenStore'[id] = lastSeenStore[id]
          /\ unreadTotal(conversations') = 0
          /\ UNCHANGED <<seenRumorIds, dmCache, reactionStore>>]_vars

\* markAllAsRead has run at second 2 on two conversations: the one that was
\* unread is stamped 2, the one read at second 1 keeps its time
C32_Witness ==
    /\ lastOp.op = "markAllAsRead"
    /\ lastOp.now = 2
    /\ Cardinality(DOMAIN conversations) = 2
    /\ unreadTotal(conversations) = 0
    /\ \E a, b \in DOMAIN conversations :
          /\ getLastSeen(ES, a) = 1
          /\ getLastSeen(ES, b) = 2

\* the publish promises that have rejected with no callback attached to them:
\* no Promise.race, then or catch was ever set up on such a promise, so the
\* runtime reports its rejection as an unhandled error
UnhandledRejections ==
    {p \in 1..Len(pubs) :
        /\ pubs[p].state = "rejected"
        /\ \A j \in 1..Len(races) : races[j].promise # p}

\* the rule of the message bubble alone
C33_BubbleRule ==
    \A rumorId \in DOMAIN sendStatuses :
        LET relays == sendStatuses[rumorId].relays
            shown == RelayStatusLine(sendStatuses[rumorId]) = "notDeliveredRetry"
        IN  /\ shown <=> (/\ DOMAIN relays # {}
                          /\ \A r \in DOMAIN relays :
                                relays[r] \in {"failed", "timeout"})
            /\ (\E r \in DOMAIN relays : relays[r] \in {"pending", "sent"})
                  => ~shown

\* C33: for a sent message with a tracking record, "Not delivered" with the
\* retry action is shown exactly when the record has at least one relay and
\* every relay's status is failed or timeout; while a relay is pending or
\* sent no retry is offered; and a publish failure never becomes an error
\* outside the send and tracking code: every rejection ends in a status.
C33_NotDeliveredAndNoError ==
    /\ C33_BubbleRule
    /\ UnhandledRejections = {}

\* relay r has accepted the event: a publish of it to r has resolved
Accepted(r, event) ==
    \E p \in 1..Len(pubs) :
        pubs[p].relay = r /\ pubs[p].event = event /\ pubs[p].state = "resolved"

\* C34: a relay whose status in a tracking record is sent has accepted every
\* wrap of that rumor that was published to it; a relay of both relay sets
\* with status sent has accepted the recipient's wrap and the self-copy.
C34_SentMeansEveryWrapAccepted ==
    \A rumorId \in DOMAIN sendStatuses :
        LET status == sendStatuses[rumorId]
        IN  \A r \in DOMAIN status.relays :
                status.relays[r] = "sent"
                => \A i \in 1..Len(status.retryWraps) :
                       r \in Range(status.retryWraps[i].relays)
                       => Accepted(r, status.retryWraps[i].event)

\* the publishes of wraps of the rumor with this id
PublishesOf(ps, rumorId) ==
    {p \in 1..Len(ps) : RumorInside(ps[p].event).id = rumorId}

\* C35: a send publishes both wraps or nothing: when wrapAndSendDM or
\* wrapAndSendReaction fails with an error, no wrap of that rumor has been
\* published to any relay.
C35_BothWrapsOrNothing ==
    [][(lastOp'.op \in {"handleSend", "sendReaction"} /\ ~lastOp'.ok)
       => /\ pubs' = pubs
          /\ "rumorId" \in DOMAIN lastOp'
                => PublishesOf(pubs', lastOp'.rumorId) = {}]_vars

\* C36: after a logout no event of the previous session changes state: an
\* event whose decryption is still in flight at the logout is not folded
\* afterwards, so while no user is logged in (and no subscription is live
\* or being started) the conversation map and the seen-rumor-id set are
\* empty.
C36_NoFoldAfterLogout ==
    (user = NoUser /\ subs = {} /\ starting = {})
    => conversations = <<>> /\ seenRumorIds = {}

\* the reaction rumors that can be ingested in a run: those of the peer and
\* the one the user sends
IngestedReactions ==
    {r \in {PeerReaction(1), PeerReaction(2), EmptyTargetReaction,
            ProtoKeyReaction}
            \cup {RumorInside(pubs[p].event) : p \in 1..Len(pubs)} :
        r.kind = KindReaction /\ r.id \in seenRumorIds}

\* C37: a reaction rumor ingested before any message of its conversation is
\* not lost: whenever the conversation is in the map, from the fold of its
\* first message on, its reaction map holds every ingested reaction (its
\* pubkey and emoji) under the id of the message it targets (a reaction
\* whose first e tag is missing or empty targets no message).
C37_EarlyReactionIsKept ==
    \A r \in IngestedReactions :
        LET c == getConversationId(r.pubkey, TagValues(r.tags, "p"))
            target == firstETag(r.tags)
        IN  (target # <<>> /\ Has(conversations, c))
            => /\ Has(conversations[c].reactions, target)
               /\ \E i \in 1..Len(conversations[c].reactions[target]) :
                     /\ conversations[c].reactions[target][i].pubkey = r.pubkey
                     /\ conversations[c].reactions[target][i].emoji = r.content

\* C38: every message in conversation state has the id computeRumorId gives
\* for its own pubkey, created_at, kind, tags and content; a received rumor
\* whose id field does not match its content is never folded, so every id
\* in the seen set is the id of a rumor that was folded with that content.
C38_MessageIdIsItsHash ==
    /\ \A c \in DOMAIN conversations :
          \A i \in 1..Len(conversations[c].messages) :
             LET m == conversations[c].messages[i]
             IN  m.id = computeRumorId([pubkey |-> m.pubkey,
                                        created_at |-> m.created_at,
                                        kind |-> KindDM, tags |-> m.tags,
                                        content |-> m.content])
    /\ \A id \in seenRumorIds :
          \E c \in DOMAIN conversations :
             \E i \in 1..Len(conversations[c].messages) :
                LET m == conversations[c].messages[i]
                IN  id = computeRumorId([pubkey |-> m.pubkey,
                                         created_at |-> m.created_at,
                                         kind |-> KindDM, tags |-> m.tags,
                                         content |-> m.content])

\* C39: in every reachable state every conversation in the map has the local
\* user's pubkey among its participants, its participants are exactly the
\* pubkeys joined in its id, and they do not change after the conversation
\* is created.
C39_ParticipantsIncludeUserAndAreFixed ==
    /\ [](\A c \in DOMAIN conversations :
            /\ conversations[c].id = c
            /\ conversations[c].participants = Split(c, PlusSign)
            /\ Hex(user.pubkey) \in Range(conversations[c].participants))
    /\ [][\A c \in DOMAIN conversations \cap DOMAIN conversations' :
            conversations'[c].participants = conversations[c].participants]_vars

\* the parts of C39 that do not name the local user
C39_IdParts ==
    /\ [](\A c \in DOMAIN conversations :
            /\ conversations[c].id = c
            /\ conversations[c].participants = Split(c, PlusSign))
    /\ [][\A c \in DOMAIN conversations \cap DOMAIN conversations' :
            conversations'[c].participants = conversations[c].participants]_vars

\* C40: after a fetchInboxRelays(pubkey, persist = true) call and its
\* background refresh have completed, the persisted relay-list store holds
\* an entry for the pubkey whose relay list is the in-memory cache entry of
\* the pubkey, whatever lookups of the pubkey were made before.
C40_StoreFollowsCache ==
    [][(/\ \/ lastOp'.op = "lookup" /\ lastOp'.done
           \/ lastOp'.op \in {"lookupAnswers", "refreshAnswers"}
        /\ lastOp'.persist
        /\ \A x \in refreshes' : x.pubkey # lastOp'.pubkey)
       => /\ Has(inboxRelayCache', lastOp'.pubkey)
          /\ Has(relayStore', lastOp'.pubkey)
          /\ relayStore'[lastOp'.pubkey].relays
                = inboxRelayCache'[lastOp'.pubkey]]_vars

====
